---- MODULE Spec2Model ----
(***************************************************************************)
(* EchoForge v1.1.7 (src/echoforge.py): the text-transformation pipeline.  *)
(*                                                                         *)
(* A text is a sequence of characters, each character a one-element        *)
(* string; every function of the pipeline is an operator on such           *)
(* sequences, computed as the Python code computes it.  The regular        *)
(* expressions of the source are kept as data (a sequence of items, one    *)
(* per regex atom) and run by one backtracking matcher, M, that follows    *)
(* the priorities of Python's re module.                                   *)
(***************************************************************************)
EXTENDS Integers, Sequences, FiniteSets, TLC

VARIABLES
    pc,           \* the position in extract_text_only and in the function under way
    ret,          \* where the function under way returns to
    cfg,          \* the options (parse_args, lines 446-462)
    raw,          \* the document read from input_file
    text,         \* the text being transformed (s, text, cleaned, chunk_html)
    code_blocks,  \* clean_plain_text: the per-call list of stashed code contents
    matches,      \* extract_speaker_blocks: the matches of ROLE_BLOCK_RE
    turn,         \* the number of the match or block being processed
    blocks,       \* the speaker turns: a sequence of <<role, text>>
    i,            \* apply_code_markdown: the scan position (0-based, as in the code)
    out,          \* apply_code_markdown: the parts appended so far
    code_payload, \* apply_code_markdown: the payload of the last block built
    md,           \* render_pretty_md: the lines appended so far
    doc,          \* the text written to output_file
    stashed,      \* history: every code content stashed since the start
    spans,        \* history: <<role, sanitized text>> of every ROLE_BLOCK_RE match
    pass,         \* how many times the sanitizer has been started on the text
    prev          \* history: what the previous pass of the sanitizer returned

vars == <<pc, ret, cfg, raw, text, code_blocks, matches, turn, blocks, i, out,
          code_payload, md, doc, stashed, spans, pass, prev>>

(***************************************************************************)
(* Characters.                                                             *)
(***************************************************************************)
LOWER == <<"a","b","c","d","e","f","g","h","i","j","k","l","m",
           "n","o","p","q","r","s","t","u","v","w","x","y","z">>
UPPER == <<"A","B","C","D","E","F","G","H","I","J","K","L","M",
           "N","O","P","Q","R","S","T","U","V","W","X","Y","Z">>
LowerSet == {LOWER[k] : k \in DOMAIN LOWER}
UpperSet == {UPPER[k] : k \in DOMAIN UPPER}
DIGITS == <<"0","1","2","3","4","5","6","7","8","9">>
DigitSet == {DIGITS[k] : k \in DOMAIN DIGITS}

\* U+0301 COMBINING ACUTE ACCENT and U+00E9 (e with acute), each one character;
\* U+0060 GRAVE ACCENT, the backtick, which a TLA+ string cannot hold.
GRAVE == "U+0060"
COMBINING_ACUTE == "U+0301"
E_ACUTE == "U+00E9"
\* The letters that compose with U+0301 under NFC, and the composed letters.
ACUTE_BASE == <<"a","c","e","g","i","k","l","m","n","o","p","r","s","u","w","y","z",
                "A","C","E","G","I","K","L","M","N","O","P","R","S","U","W","Y","Z">>
ACUTE_COMPOSED == <<"U+00E1","U+0107","U+00E9","U+01F5","U+00ED","U+1E31","U+013A",
                    "U+1E3F","U+0144","U+00F3","U+1E55","U+0155","U+015B","U+00FA",
                    "U+1E83","U+00FD","U+017A","U+00C1","U+0106","U+00C9","U+01F4",
                    "U+00CD","U+1E30","U+0139","U+1E3E","U+0143","U+00D3","U+1E54",
                    "U+0154","U+015A","U+00DA","U+1E82","U+00DD","U+0179">>
AcuteBaseSet == {ACUTE_BASE[k] : k \in DOMAIN ACUTE_BASE}
ComposedSet == {ACUTE_COMPOSED[k] : k \in DOMAIN ACUTE_COMPOSED}
ComposeAcute == [c \in AcuteBaseSet |-> ACUTE_COMPOSED[CHOOSE k \in DOMAIN ACUTE_BASE : ACUTE_BASE[k] = c]]

\* str.lower() / re.IGNORECASE folding of one character.
ToLower == [c \in UpperSet |-> LOWER[CHOOSE k \in DOMAIN UPPER : UPPER[k] = c]]
ToUpper == [c \in LowerSet |-> UPPER[CHOOSE k \in DOMAIN LOWER : LOWER[k] = c]]
\* (ACUTE_COMPOSED lists the 17 small letters, then their 17 capitals.)
ComposedAt(c) == CHOOSE k \in DOMAIN ACUTE_COMPOSED : ACUTE_COMPOSED[k] = c
lower(c) ==
    IF c \in UpperSet THEN ToLower[c]
    ELSE IF c \in ComposedSet /\ ComposedAt(c) > 17 THEN ACUTE_COMPOSED[ComposedAt(c) - 17]
    ELSE c
upper(c) ==
    IF c \in LowerSet THEN ToUpper[c]
    ELSE IF c \in ComposedSet /\ ComposedAt(c) <= 17 THEN ACUTE_COMPOSED[ComposedAt(c) + 17]
    ELSE c

\* \s, \d, \w of Python's re on str, over the characters of the model.
WS == {" ", "\t", "\n", "\r"}
WordSet == LowerSet \cup UpperSet \cup DigitSet \cup {"_"} \cup ComposedSet
LetterSet == LowerSet \cup UpperSet \cup {"_"} \cup ComposedSet

(***************************************************************************)
(* Sequence helpers (Python slicing, 1-based).                             *)
(***************************************************************************)
\* s[a-1 : b] of Python: the characters at positions a..b.
Sub(s, a, b) == IF a > b THEN <<>> ELSE SubSeq(s, a, b)

RECURSIVE Concat(_)
\* "".join(parts)
Concat(parts) == IF parts = <<>> THEN <<>> ELSE Head(parts) \o Concat(Tail(parts))

RECURSIVE Join(_, _)
\* sep.join(parts)
Join(parts, sep) ==
    IF parts = <<>> THEN <<>>
    ELSE IF Len(parts) = 1 THEN parts[1]
    ELSE parts[1] \o sep \o Join(Tail(parts), sep)

\* lit occurs in s at position p (ci: ignoring case).
LitAt(s, p, lit, ci) ==
    /\ p + Len(lit) - 1 <= Len(s)
    /\ \A k \in 1..Len(lit) :
         \/ s[p + k - 1] = lit[k]
         \/ ci /\ Cardinality({lower(c) : c \in {s[p + k - 1], lit[k]}}) = 1

\* The least and the greatest element of a non-empty set of integers.
Min(S) == CHOOSE x \in S : \A y \in S : x <= y
Max(S) == CHOOSE x \in S : \A y \in S : y <= x

\* s.find(lit, p-1) + 1: the first position >= p where lit occurs, 0 if none.
Find(s, lit, p) ==
    LET at == {q \in p..(Len(s) - Len(lit) + 1) : LitAt(s, q, lit, FALSE)}
    IN  IF at = {} THEN 0 ELSE Min(at)

\* lit occurs somewhere in s.
Contains(s, lit) == Find(s, lit, 1) # 0

(***************************************************************************)
(* Regular expressions.  A regex is a sequence of items:                   *)
(*   lit   a literal string (ci: re.IGNORECASE)                            *)
(*   rep   min..max repetitions of one character class, greedy or lazy     *)
(*         (max = -1: unbounded); a class is [neg, cs]: the characters in  *)
(*         cs, or (neg) the characters not in cs                           *)
(*   alt   alternatives (each a regex), tried in order                     *)
(*   la    positive lookahead (?=...)                                      *)
(*   lb    positive lookbehind (?<=...) of n characters                    *)
(*   bol eol   ^ and $ under re.MULTILINE;  eos   $ without it;  Z   \Z    *)
(*   wb    \b                                                              *)
(*   mark  records the position: the start or end of a capturing group     *)
(* M(re, s, p) is <<>> when re does not match s at position p, and else    *)
(* the marked positions followed by the position after the match, for the  *)
(* first match in the order Python's backtracking tries them.              *)
(***************************************************************************)
Cls(cs) == [neg |-> FALSE, cs |-> cs]
NotCls(cs) == [neg |-> TRUE, cs |-> cs]
InCls(c, cls) == IF cls.neg THEN c \notin cls.cs ELSE c \in cls.cs
AnyChar == NotCls({})          \* . under re.DOTALL
NotNewline == NotCls({"\n"})   \* . without re.DOTALL
Space == Cls(WS)               \* \s
NonSpace == NotCls(WS)         \* \S
Digit == Cls(DigitSet)         \* \d

Lit(s) == [t |-> "lit", s |-> s, ci |-> FALSE]
LitI(s) == [t |-> "lit", s |-> s, ci |-> TRUE]
Rep(cls, min, max) == [t |-> "rep", c |-> cls, min |-> min, max |-> max, lazy |-> FALSE]
LazyRep(cls, min, max) == [t |-> "rep", c |-> cls, min |-> min, max |-> max, lazy |-> TRUE]
Star(cls) == Rep(cls, 0, -1)
Plus(cls) == Rep(cls, 1, -1)
One(cls) == Rep(cls, 1, 1)
Alt(alts) == [t |-> "alt", alts |-> alts]
Opt(re) == Alt(<<re, <<>>>>)
LookAhead(re) == [t |-> "la", r |-> re]
LookBehind(re, n) == [t |-> "lb", r |-> re, n |-> n]
BOL == [t |-> "bol"]
EOL == [t |-> "eol"]
EOS == [t |-> "eos"]
EndZ == [t |-> "Z"]
WB == [t |-> "wb"]
Mark == [t |-> "mark"]

\* How many characters of s from position p on are in cls, at most max (-1: no cap).
RunLen(s, p, cls, max) ==
    LET avail == IF p > Len(s) THEN 0 ELSE Len(s) - p + 1
        lim == IF max = -1 \/ max > avail THEN avail ELSE max
    IN  IF cls.neg /\ cls.cs = {} THEN lim
        ELSE CHOOSE n \in 0..lim :
                /\ n = lim \/ ~InCls(s[p + n], cls)
                /\ \A j \in 0..(n - 1) : InCls(s[p + j], cls)

IsWordAt(s, p) == p >= 1 /\ p <= Len(s) /\ s[p] \in WordSet

RECURSIVE M(_, _, _)

\* The first (lazy) or the last (greedy) of the match results tried in the order
\* of their keys: tries is a set of <<key, result>>, and <<>> is a failure.
FirstOf(tries, lazy) ==
    LET ok == {x \in tries : x[2] # <<>>}
    IN  IF ok = {} THEN <<>>
        ELSE (CHOOSE x \in ok : \A y \in ok : IF lazy THEN x[1] <= y[1] ELSE y[1] <= x[1])[2]

M(re, s, p) ==
    IF re = <<>> THEN <<p>>
    ELSE LET h == Head(re)
             r == Tail(re)
         IN  CASE h.t = "lit" ->
                    IF LitAt(s, p, h.s, h.ci) THEN M(r, s, p + Len(h.s)) ELSE <<>>
               [] h.t = "rep" ->
                    \* of the runs of h.min..n characters after which the rest
                    \* matches, the shortest (lazy) or the longest (greedy)
                    FirstOf({<<k, M(r, s, p + k)>> : k \in h.min..RunLen(s, p, h.c, h.max)},
                            h.lazy)
               \* the first alternative, in the order written, after which the
               \* rest matches
               [] h.t = "alt" ->
                    FirstOf({<<k, M(h.alts[k] \o r, s, p)>> : k \in 1..Len(h.alts)}, TRUE)
               [] h.t = "la" -> IF M(h.r, s, p) # <<>> THEN M(r, s, p) ELSE <<>>
               [] h.t = "lb" ->
                    IF p - h.n >= 1 /\ M(h.r \o <<EndZ>>, Sub(s, 1, p - 1), p - h.n) # <<>>
                    THEN M(r, s, p) ELSE <<>>
               [] h.t = "bol" -> IF p = 1 \/ s[p - 1] = "\n" THEN M(r, s, p) ELSE <<>>
               [] h.t = "eol" ->
                    IF p = Len(s) + 1 \/ s[p] = "\n" THEN M(r, s, p) ELSE <<>>
               [] h.t = "eos" ->
                    IF p = Len(s) + 1 \/ (p = Len(s) /\ s[p] = "\n")
                    THEN M(r, s, p) ELSE <<>>
               [] h.t = "Z" -> IF p = Len(s) + 1 THEN M(r, s, p) ELSE <<>>
               [] h.t = "wb" ->
                    IF Cardinality({q \in {p - 1, p} : IsWordAt(s, q)}) = 1
                    THEN M(r, s, p) ELSE <<>>
               [] h.t = "mark" ->
                    LET res == M(r, s, p) IN IF res = <<>> THEN <<>> ELSE <<p>> \o res

\* The matches of re in s that start at position p or later, each as
\* <<start>> \o M(re, s, start).
Hits(re, s, p) == {x \in {<<q>> \o M(re, s, q) : q \in p..(Len(s) + 1)} : Len(x) > 1}

\* The leftmost of the matches hits that starts at or after position p, <<>> if none.
FirstHit(hits, p) ==
    LET at == {x \in hits : x[1] >= p}
    IN  IF at = {} THEN <<>> ELSE CHOOSE x \in at : \A y \in at : x[1] <= y[1]

\* re.search(s, p-1)
Search(re, s, p) == FirstHit(Hits(re, s, p), p)

MStart(m) == m[1]
MEnd(m) == m[Len(m)]
\* m.group(0), and m.group(1) of a regex with one marked group.
Group0(s, m) == Sub(s, MStart(m), MEnd(m) - 1)
Group1(s, m) == Sub(s, m[2], m[3] - 1)

RECURSIVE FindFrom(_, _)
\* The match m, if there is one, and the matches after it.
FindNext(hits, m) == IF m = <<>> THEN <<>> ELSE <<m>> \o FindFrom(hits, MEnd(m))

FindFrom(hits, p) == FindNext(hits, FirstHit(hits, p))

\* re.finditer: the matches from position p on, left to right, not overlapping.
\* (Every regex it is used with matches at least one character.)
FindAll(re, s, p) == FindFrom(Hits(re, s, p), p)

RECURSIVE Splice(_, _, _, _, _)
\* re.sub with the matches ms and, for match k, the replacement repl[k].
Splice(s, ms, repl, k, p) ==
    IF k > Len(ms) THEN Sub(s, p, Len(s))
    ELSE Sub(s, p, MStart(ms[k]) - 1) \o repl[k] \o Splice(s, ms, repl, k + 1, MEnd(ms[k]))

\* re.sub(re, to, s) with a constant replacement.
ReSub(re, to, s) ==
    LET ms == FindAll(re, s, 1)
    IN  Splice(s, ms, [k \in 1..Len(ms) |-> to], 1, 1)

(***************************************************************************)
(* Integers as decimal text: str(n), f"{n:03d}" and int(digits).           *)
(***************************************************************************)
RECURSIVE IntToStr(_)
IntToStr(n) == IF n < 10 THEN <<DIGITS[n + 1]>> ELSE IntToStr(n \div 10) \o <<DIGITS[(n % 10) + 1]>>

\* f"{n:03d}": at least three digits, zero-padded.
Pad3(n) ==
    LET d == IntToStr(n)
    IN  IF Len(d) >= 3 THEN d ELSE [k \in 1..(3 - Len(d)) |-> "0"] \o d

DigitVal(c) == (CHOOSE k \in DOMAIN DIGITS : DIGITS[k] = c) - 1

RECURSIVE StrToInt(_)
StrToInt(d) == IF d = <<>> THEN 0 ELSE 10 * StrToInt(Sub(d, 1, Len(d) - 1)) + DigitVal(d[Len(d)])

(***************************************************************************)
(* str methods.                                                            *)
(***************************************************************************)
\* s.lstrip(chars), s.rstrip(chars), s.strip(chars), s.strip()
LStripSet(s, cs) ==
    LET keep == {k \in 1..Len(s) : s[k] \notin cs}
    IN  IF keep = {} THEN <<>> ELSE Sub(s, Min(keep), Len(s))

RStripSet(s, cs) ==
    LET keep == {k \in 1..Len(s) : s[k] \notin cs}
    IN  IF keep = {} THEN <<>> ELSE Sub(s, 1, Max(keep))

StripSet(s, cs) == RStripSet(LStripSet(s, cs), cs)
strip(s) == StripSet(s, WS)

RECURSIVE SplitOn(_, _, _)
\* s.split(sep) from position p on (sep not empty)
SplitOn(s, sep, p) ==
    LET q == Find(s, sep, p)
    IN  IF q = 0 THEN <<Sub(s, p, Len(s))>>
        ELSE <<Sub(s, p, q - 1)>> \o SplitOn(s, sep, q + Len(sep))

split(s, sep) == SplitOn(s, sep, 1)

RECURSIVE SplitLinesFrom(_, _)
\* s.splitlines(): the lines end at \n, \r\n or \r; a final line break opens no line.
SplitLinesFrom(s, p) ==
    LET brk == {b \in p..Len(s) : s[b] \in {"\n", "\r"}}
        q == Min(brk)
        crlf == s[q] = "\r" /\ q < Len(s) /\ s[q + 1] = "\n"
    IN  IF p > Len(s) THEN <<>>
        ELSE IF brk = {} THEN <<Sub(s, p, Len(s))>>
        ELSE <<Sub(s, p, q - 1)>> \o SplitLinesFrom(s, IF crlf THEN q + 2 ELSE q + 1)

splitlines(s) == SplitLinesFrom(s, 1)

RECURSIVE Replace(_, _, _)
\* s.replace(old, new)
Replace(s, old, new) ==
    LET q == Find(s, old, 1)
    IN  IF q = 0 THEN s
        ELSE Sub(s, 1, q - 1) \o new \o Replace(Sub(s, q + Len(old), Len(s)), old, new)

(***************************************************************************)
(* Character Filter: unicodedata.category of the model's characters.       *)
(***************************************************************************)
CatL == LowerSet \cup UpperSet \cup ComposedSet
CatN == DigitSet
CatP == {"_", "-", "#", "*", ".", ":", "\"", "&", ";", "!", "/", ",", "?", "'",
         "(", ")", "[", "]", "{", "}", "@", "%", "\\"}
CatSm == {"<", ">", "+", "=", "|", "~"}
CatSc == {"$"}
CatSk == {GRAVE, "^"}
CatMn == {COMBINING_ACUTE}

\* _EXTRA_KEEP (line 61): seven arrows and the dashes U+2013, U+2014, U+2015
_EXTRA_KEEP == {"U+2192", "U+2190", "U+2194", "U+21A0", "U+21A9", "U+21D2", "U+21D4",
                "U+2013", "U+2014", "U+2015"}

is_allowed_char(ch) ==
    \/ ch \in {" ", "\t", "\n", "\r"}
    \/ ch \in _EXTRA_KEEP
    \/ ch \in CatL \cup CatN \cup CatP
    \/ ch \in CatSm \cup CatSc

(***************************************************************************)
(* html.unescape and unicodedata.normalize("NFC", .).                      *)
(***************************************************************************)
S_lt == <<"l","t">>
S_gt == <<"g","t">>
S_amp == <<"a","m","p">>
\* html.entities.html5, the names a document of the model can spell:
\* each with and without its semicolon.
Html5Names == {S_lt, S_gt, S_amp}
Html5Char(name) == IF name = S_lt THEN "<" ELSE IF name = S_gt THEN ">" ELSE "&"
InHtml5(n) == n \in Html5Names \/ (n # <<>> /\ n[Len(n)] = ";" /\ Sub(n, 1, Len(n) - 1) \in Html5Names)
Html5Of(n) == Html5Char(IF n[Len(n)] = ";" THEN Sub(n, 1, Len(n) - 1) ELSE n)

\* html._charref, its named branch: &([^\t\n\f <&#;]{1,32};?)
\* (numeric references &#NN; are outside the documents of the model).
CHARREF_RE == <<Lit(<<"&">>), Mark,
                Rep(NotCls({"\t", "\n", "\f", " ", "<", "&", "#", ";"}), 1, 32),
                Opt(<<Lit(<<";">>)>>), Mark>>

RECURSIVE CharrefPrefix(_, _)
\* html._replace_charref: the longest proper prefix s[:x], x from len(s)-1 down to 2,
\* that is an entity name.
CharrefPrefix(n, x) ==
    IF x < 2 THEN <<"&">> \o n
    ELSE IF InHtml5(Sub(n, 1, x)) THEN <<Html5Of(Sub(n, 1, x))>> \o Sub(n, x + 1, Len(n))
    ELSE CharrefPrefix(n, x - 1)

replace_charref(n) == IF InHtml5(n) THEN <<Html5Of(n)>> ELSE CharrefPrefix(n, Len(n) - 1)

unescape(s) ==
    IF ~Contains(s, <<"&">>) THEN s
    ELSE LET ms == FindAll(CHARREF_RE, s, 1)
         IN  Splice(s, ms, [k \in 1..Len(ms) |-> replace_charref(Group1(s, ms[k]))], 1, 1)

RECURSIVE NFCFrom(_, _)
\* NFC: a letter followed by the combining acute accent composes to one character.
NFCFrom(s, p) ==
    LET at == {b \in p..(Len(s) - 1) : s[b] \in AcuteBaseSet /\ s[b + 1] = COMBINING_ACUTE}
        q == Min(at)
    IN  IF at = {} THEN Sub(s, p, Len(s))
        ELSE Sub(s, p, q - 1) \o <<ComposeAcute[s[q]]>> \o NFCFrom(s, q + 2)

NFC(s) == NFCFrom(s, 1)


(***************************************************************************)
(* The regular expressions of the Sanitizer (lines 23-36).                 *)
(***************************************************************************)
NotGT == NotCls({">"})

\* r"<[^>]+>"
TAG_RE == <<Lit(<<"<">>), Plus(NotGT), Lit(<<">">>)>>

\* r"<!--.*?-->|<script\b[^>]*>.*?</script>|<style\b[^>]*>.*?</style>", IGNORECASE | DOTALL
TAG_BLOCKS_RE ==
    <<Alt(<< <<Lit(<<"<","!","-","-">>), LazyRep(AnyChar, 0, -1), Lit(<<"-","-",">">>)>>,
             <<LitI(<<"<","s","c","r","i","p","t">>), WB, Star(NotGT), Lit(<<">">>),
               LazyRep(AnyChar, 0, -1), LitI(<<"<","/","s","c","r","i","p","t",">">>)>>,
             <<LitI(<<"<","s","t","y","l","e">>), WB, Star(NotGT), Lit(<<">">>),
               LazyRep(AnyChar, 0, -1), LitI(<<"<","/","s","t","y","l","e",">">>)>> >>)>>

\* r"(?is)<pre\b[^>]*>\s*<code\b[^>]*>(.*?)</code>\s*</pre>"
PRE_CODE_RE ==
    <<LitI(<<"<","p","r","e">>), WB, Star(NotGT), Lit(<<">">>), Star(Space),
      LitI(<<"<","c","o","d","e">>), WB, Star(NotGT), Lit(<<">">>),
      Mark, LazyRep(AnyChar, 0, -1), Mark,
      LitI(<<"<","/","c","o","d","e",">">>), Star(Space), LitI(<<"<","/","p","r","e",">">>)>>

CODE_MARKER_PREFIX ==
    <<"_","_","E","C","H","O","F","O","R","G","E","_","C","O","D","E","B","L","O","C","K","_">>

\* r"__ECHOFORGE_CODEBLOCK_(\d+)__"
CODE_MARKER_RE == <<Lit(CODE_MARKER_PREFIX), Mark, Plus(Digit), Mark, Lit(<<"_","_">>)>>

\* r"</?(?:p|br|li|div|h[1-6]|section|article|blockquote|tr|th|td)\b[^>]*>", IGNORECASE
BREAKERS_RE ==
    <<Lit(<<"<">>), Opt(<<Lit(<<"/">>)>>),
      Alt(<< <<LitI(<<"p">>)>>,
             <<LitI(<<"b","r">>)>>,
             <<LitI(<<"l","i">>)>>,
             <<LitI(<<"d","i","v">>)>>,
             <<LitI(<<"h">>), One(Cls({"1","2","3","4","5","6"}))>>,
             <<LitI(<<"s","e","c","t","i","o","n">>)>>,
             <<LitI(<<"a","r","t","i","c","l","e">>)>>,
             <<LitI(<<"b","l","o","c","k","q","u","o","t","e">>)>>,
             <<LitI(<<"t","r">>)>>,
             <<LitI(<<"t","h">>)>>,
             <<LitI(<<"t","d">>)>> >>),
      WB, Star(NotGT), Lit(<<">">>)>>

\* r"\b(?:div|span|section|article|header|footer|main|aside)\b", IGNORECASE (line 136)
LAYOUT_WORD_RE ==
    <<WB,
      Alt(<< <<LitI(<<"d","i","v">>)>>,
             <<LitI(<<"s","p","a","n">>)>>,
             <<LitI(<<"s","e","c","t","i","o","n">>)>>,
             <<LitI(<<"a","r","t","i","c","l","e">>)>>,
             <<LitI(<<"h","e","a","d","e","r">>)>>,
             <<LitI(<<"f","o","o","t","e","r">>)>>,
             <<LitI(<<"m","a","i","n">>)>>,
             <<LitI(<<"a","s","i","d","e">>)>> >>),
      WB>>

\* r"[ \t\r\f\v]+" (lines 96, 99)
HSPACE_RE == <<Plus(Cls({" ", "\t", "\r", "\f"}))>>

\* r'^([ \t]+)(.*)$' (line 93), matched at the start of one line
LEAD_RE == <<Mark, Plus(Cls({" ", "\t"})), Mark, Star(NotNewline), EOS>>

\* r"\n{3,}" (lines 139, 258)
BLANK_LINES_RE == <<Rep(Cls({"\n"}), 3, -1)>>

(***************************************************************************)
(* _collapse_ws_preserve_indent (lines 85-100).                            *)
(***************************************************************************)
CollapseLine(ln) ==
    LET m == M(LEAD_RE, ln, 1)
    IN  IF m # <<>>
        THEN LET lead == Sub(ln, m[1], m[2] - 1)
                 rest == Sub(ln, m[2], Len(ln))
             IN  lead \o ReSub(HSPACE_RE, <<" ">>, rest)
        ELSE ReSub(HSPACE_RE, <<" ">>, ln)

_collapse_ws_preserve_indent(s) ==
    LET lines == splitlines(s)
    IN  Join([k \in 1..Len(lines) |-> CollapseLine(lines[k])], <<"\n">>)

(***************************************************************************)
(* clean_plain_text (lines 103-151).                                       *)
(***************************************************************************)
S_fence == <<GRAVE, GRAVE, GRAVE>>

\* _stash_code, lines 116-124: the stored content of one <pre><code> region.
StashInner(inner) ==
    StripSet(Replace(Replace(NFC(unescape(ReSub(TAG_RE, <<>>, inner))),
                             <<"\r", "\n">>, <<"\n">>),
                     <<"\r">>, <<"\n">>),
             {"\n"})

\* f"\n{CODE_MARKER_PREFIX}{len(code_blocks)-1}__\n" (line 126), for the k-th region
Placeholder(k) == <<"\n">> \o CODE_MARKER_PREFIX \o IntToStr(k - 1) \o <<"_", "_", "\n">>

\* The per-call list code_blocks after line 128.
CodeBlocks(s) ==
    LET ms == FindAll(PRE_CODE_RE, s, 1)
    IN  [k \in 1..Len(ms) |-> StashInner(Group1(s, ms[k]))]

\* Line 128: s with every <pre><code> region replaced by its placeholder.
Stashed(s) ==
    LET ms == FindAll(PRE_CODE_RE, s, 1)
    IN  Splice(s, ms, [k \in 1..Len(ms) |-> Placeholder(k)], 1, 1)

FilterChars(s) == [k \in 1..Len(s) |-> IF is_allowed_char(s[k]) THEN s[k] ELSE " "]

\* A variant of _unstash that takes index 0 for out of range
UnstashFromOne(s, m, cbs) ==
    LET n == StrToInt(Group1(s, m))
    IN  IF n <= 0 \/ n >= Len(cbs) THEN Group0(s, m)
        ELSE S_fence \o <<"\n">> \o cbs[n + 1] \o <<"\n">> \o S_fence

\* _unstash, lines 143-148
Unstash(s, m, cbs) ==
    LET n == StrToInt(Group1(s, m))
    IN  IF n < 0 \/ n >= Len(cbs) THEN Group0(s, m)
        ELSE S_fence \o <<"\n">> \o cbs[n + 1] \o <<"\n">> \o S_fence

\* Line 150: CODE_MARKER_RE.sub(_unstash, s)
Unstashed(s, cbs) ==
    LET ms == FindAll(CODE_MARKER_RE, s, 1)
    IN  Splice(s, ms, [k \in 1..Len(ms) |-> Unstash(s, ms[k], cbs)], 1, 1)

(***************************************************************************)
(* strip_label_artifacts (lines 253-259).                                  *)
(***************************************************************************)
S_you_said == <<"Y","o","u"," ","s","a","i","d",":">>
S_chatgpt_said == <<"C","h","a","t","G","P","T"," ","s","a","i","d",":">>

\* r'(?mi)^(?:You said:|ChatGPT said:)\s*(?:<\s*)?$'
LABEL_JUNK_RE ==
    <<BOL, Alt(<< <<LitI(S_you_said)>>, <<LitI(S_chatgpt_said)>> >>), Star(Space),
      Opt(<<Lit(<<"<">>), Star(Space)>>), EOL>>

\* r'(?m)^\s*<\s*$'
LONE_LEFT_RE == <<BOL, Star(Space), Lit(<<"<">>), Star(Space), EOL>>

strip_label_artifacts(s) ==
    strip(ReSub(BLANK_LINES_RE, <<"\n", "\n">>,
                ReSub(LONE_LEFT_RE, <<>>, ReSub(LABEL_JUNK_RE, <<>>, s))))

(***************************************************************************)
(* apply_code_markdown (lines 153-191).                                    *)
(***************************************************************************)
_LANGS ==
    <<<<"k","o","t","l","i","n">>,
      <<"s","q","l">>,
      <<"s","c","s","s">>,
      <<"p","g","s","q","l">>,
      <<"b","a","s","h">>,
      <<"v","b","n","e","t">>,
      <<"p","y","t","h","o","n">>,
      <<"p","y">>,
      <<"j","a","v","a","s","c","r","i","p","t">>,
      <<"j","s">>,
      <<"t","y","p","e","s","c","r","i","p","t">>,
      <<"t","s">>,
      <<"h","t","m","l">>,
      <<"c","s","s">>,
      <<"j","s","o","n">>,
      <<"x","m","l">>,
      <<"y","a","m","l">>,
      <<"y","m","l">>,
      <<"t","o","m","l">>,
      <<"i","n","i">>,
      <<"g","o">>,
      <<"r","u","s","t">>,
      <<"c">>,
      <<"c","p","p">>,
      <<"j","a","v","a">>,
      <<"p","o","w","e","r","s","h","e","l","l">>,
      <<"p","s","1">>,
      <<"s","h">>,
      <<"z","s","h">>,
      <<"d","o","c","k","e","r","f","i","l","e">>,
      <<"m","a","k","e","f","i","l","e">>,
      <<"p","e","r","l">>,
      <<"r">>,
      <<"l","u","a">>,
      <<"s","w","i","f","t">>,
      <<"p","h","p">>,
      <<"o","b","j","c">>,
      <<"o","b","j","e","c","t","i","v","e","-","c">>>>

\* (?:{_LANGS_RX}): the language names as alternatives, in the order of _LANGS
LangsRx(ci) == Alt([k \in 1..Len(_LANGS) |-> <<[t |-> "lit", s |-> _LANGS[k], ci |-> ci]>>])

S_copy_code == <<"C","o","p","y"," ","c","o","d","e">>

\* rf"(?mi)^((?:{_LANGS_RX}))\s*\n+Copy code\s*\n"
CODE_OPEN_RE ==
    <<BOL, Mark, LangsRx(TRUE), Mark, Star(Space), Plus(Cls({"\n"})), LitI(S_copy_code),
      Star(Space), Lit(<<"\n">>)>>

\* BOUNDARY_RE (lines 160-173) as re.compile receives it.  The pattern is an
\* rf-string compiled under (?mx): the f-string turns {1,6} into the text
\* "(1, 6)", and the verbose flag drops every blank of the pattern, those inside
\* "You said:", "ChatGPT said:" and "(1, 6)" included.  No IGNORECASE.
S_yousaid == <<"Y","o","u","s","a","i","d",":">>
S_chatgptsaid == <<"C","h","a","t","G","P","T","s","a","i","d",":">>
S_quickextra == <<"Q","u","i","c","k","e","x","t","r","a">>
S_details == <<"d","e","t","a","i","l","s",">">>

BOUNDARY_RE ==
    <<Alt(<< <<BOL, LookAhead(<<LangsRx(FALSE), Star(Space), EOL>>)>>,
             <<BOL, LookAhead(<<Lit(<<"-","-","-">>), Star(Space), Plus(Digit), Star(Space),
                                Lit(<<"[">>)>>)>>,
             <<BOL, LookAhead(<<Lit(S_yousaid)>>)>>,
             <<BOL, LookAhead(<<Lit(S_chatgptsaid)>>)>>,
             <<BOL, LookAhead(<<Lit(<<"<">>), Opt(<<Lit(<<"/">>)>>), Lit(S_details)>>)>>,
             <<BOL, LookAhead(<<Star(Space), Lit(<<"#","1",",","6">>), One(Space)>>)>>,
             <<BOL, LookAhead(<<Star(Space),
                                Alt(<< <<One(Cls({"-", "*", "+"}))>>,
                                       <<Plus(Digit), Lit(<<".">>)>> >>),
                                One(Space)>>)>>,
             <<BOL, LookAhead(<<Star(Space), Lit(S_quickextra), Opt(<<Lit(<<"s">>)>>),
                                Lit(<<":">>)>>)>>,
             <<BOL, LookAhead(<<Lit(S_fence)>>)>>,
             <<EndZ>> >>)>>

\* Line 179: m = CODE_OPEN_RE.search(text, i); <<>> when there is no match.
AcmOpen(s, pos) == Search(CODE_OPEN_RE, s, pos + 1)

\* A variant of lines 185-187 that ends the block where its marker starts
AcmEndAtMarker(s, m) == MStart(m) - 1

\* Lines 185-187: end, the start of the first boundary at or after m.end().
AcmEnd(s, m) == MStart(Search(BOUNDARY_RE, s, MEnd(m))) - 1

\* Line 188: code_payload = text[start:end].rstrip("\n")
AcmPayload(s, m) == RStripSet(Sub(s, MEnd(m), AcmEnd(s, m)), {"\n"})

\* Line 189: f"```{lang}\n{code_payload}\n```\n"
AcmFence(s, m) ==
    S_fence \o Group1(s, m) \o <<"\n">> \o AcmPayload(s, m) \o <<"\n">> \o S_fence \o <<"\n">>

(***************************************************************************)
(* extract_speaker_blocks (lines 37-40 and 346-358).                       *)
(***************************************************************************)
S_role_attr == <<"d","a","t","a","-","m","e","s","s","a","g","e","-","a","u","t","h","o","r","-","r","o","l",
      "e","=","\"">>
S_user == <<"u","s","e","r">>
S_assistant == <<"a","s","s","i","s","t","a","n","t">>
S_unknown == <<"u","n","k","n","o","w","n">>

RoleAlt == Alt(<< <<LitI(S_user)>>, <<LitI(S_assistant)>> >>)

\* r'data-message-author-role="(user|assistant)".*?
\*   (?=data-message-author-role="(?:user|assistant)"|$)', DOTALL | IGNORECASE
ROLE_BLOCK_RE ==
    <<LitI(S_role_attr), Mark, RoleAlt, Mark, Lit(<<"\"">>), LazyRep(AnyChar, 0, -1),
      LookAhead(<<Alt(<< <<LitI(S_role_attr), RoleAlt, Lit(<<"\"">>)>>, <<EOS>> >>)>>)>>

\* r'^[^>]*>' (line 353), which can match at the start of the chunk only
FIRST_TAG_RE == <<Star(NotGT), Lit(<<">">>)>>

\* r'\s*\b(?:data-[^=]+|class|dir|id|style|aria-[^=]+)="[^"]*"' (line 354)
ATTR_NOISE_RE ==
    <<Star(Space), WB,
      Alt(<< <<Lit(<<"d","a","t","a","-">>), Plus(NotCls({"="}))>>,
             <<Lit(<<"c","l","a","s","s">>)>>,
             <<Lit(<<"d","i","r">>)>>,
             <<Lit(<<"i","d">>)>>,
             <<Lit(<<"s","t","y","l","e">>)>>,
             <<Lit(<<"a","r","i","a","-">>), Plus(NotCls({"="}))>> >>),
      Lit(<<"=", "\"">>), Star(NotCls({"\""})), Lit(<<"\"">>)>>

\* str.lower()
LowerStr(s) == [k \in 1..Len(s) |-> lower(s[k])]

\* A variant of line 347 that keeps the first match only
FirstRoleMatch(s) ==
    LET ms == FindAll(ROLE_BLOCK_RE, s, 1) IN SubSeq(ms, 1, Min({1, Len(ms)}))

\* Line 347: the matches of ROLE_BLOCK_RE in the document
RoleMatches(s) == FindAll(ROLE_BLOCK_RE, s, 1)

\* Line 352: role = m.group(1).lower()
RoleOf(s, m) == LowerStr(Group1(s, m))

\* Lines 353-354: the span of match m with its leading tag remainder and the
\* attribute noise removed
ChunkHtml(s, m) ==
    LET g == Group0(s, m)
        t == M(FIRST_TAG_RE, g, 1)
        rest == IF t = <<>> THEN g ELSE Sub(g, MEnd(t), Len(g))
    IN  ReSub(ATTR_NOISE_RE, <<>>, rest)

(***************************************************************************)
(* textwrap.fill as _wrap_non_code calls it (lines 227 and 232): a         *)
(* TextWrapper with expand_tabs, replace_whitespace, drop_whitespace,      *)
(* break_long_words and break_on_hyphens set, tabsize 8, no initial        *)
(* indent and no max_lines.                                                *)
(***************************************************************************)
\* string.whitespace, as far as the characters of the model go
TwSpace == Cls({"\t", "\n", "\f", "\r", " "})
TwNonSpace == NotCls({"\t", "\n", "\f", "\r", " "})
\* [\w!"'&.,?] and [^\d\W]
WordPunct == Cls(WordSet \cup {"!", "\"", "'", "&", ".", ",", "?"})
Letter == Cls(LetterSet)
Word == Cls(WordSet)
Hyphens2 == Rep(Cls({"-"}), 2, -1)

\* TextWrapper.wordsep_re
WORDSEP_RE ==
    <<Alt(<< <<Plus(TwSpace)>>,
             <<LookBehind(<<One(WordPunct)>>, 1), Hyphens2, LookAhead(<<One(Word)>>)>>,
             <<LazyRep(TwNonSpace, 1, -1),
               Alt(<< <<Lit(<<"-">>),
                        Alt(<< <<LookBehind(<<Rep(Letter, 2, 2), Lit(<<"-">>)>>, 3)>>,
                               <<LookBehind(<<One(Letter), Lit(<<"-">>), One(Letter),
                                              Lit(<<"-">>)>>, 4)>> >>),
                        LookAhead(<<One(Letter), Opt(<<Lit(<<"-">>)>>), One(Letter)>>)>>,
                      <<LookAhead(<<Alt(<< <<One(TwSpace)>>, <<EndZ>> >>)>>)>>,
                      <<LookBehind(<<One(WordPunct)>>, 1),
                        LookAhead(<<Hyphens2, One(Word)>>)>> >>)>> >>)>>

RECURSIVE ExpandTabs(_, _)
\* str.expandtabs(8): col0 is the column at which s starts.
ExpandTabs(s, col0) ==
    LET tabs == {b \in 1..Len(s) : s[b] = "\t"}
        q == Min(tabs)
        brk == {b \in 1..(q - 1) : s[b] \in {"\n", "\r"}}
        col == IF brk = {} THEN col0 + q - 1 ELSE q - 1 - Max(brk)
        pad == 8 - (col % 8)
    IN  IF tabs = {} THEN s
        ELSE Sub(s, 1, q - 1) \o [k \in 1..pad |-> " "]
                 \o ExpandTabs(Sub(s, q + 1, Len(s)), col + pad)

\* TextWrapper._munge_whitespace: tabs expanded, every whitespace character a blank
Munge(s) ==
    LET e == ExpandTabs(s, 0)
    IN  [k \in 1..Len(e) |-> IF e[k] \in {"\t", "\n", "\f", "\r", " "} THEN " " ELSE e[k]]

\* The elements of a sequence
Range(f) == {f[k] : k \in DOMAIN f}

\* TextWrapper._split: the positions of t where a chunk starts.  (The pieces that
\* wordsep_re.split returns are the matches and the text between them.)
ChunkStarts(t) ==
    UNION {{MStart(m), MEnd(m)} : m \in Range(FindAll(WORDSEP_RE, t, 1))} \cup {1}

\* chunk.strip() == '' for the characters a..b of t
IsBlank(t, a, b) == \A k \in a..b : t[k] \in WS

\* TextWrapper._handle_long_word: how many characters of the chunk t[e..f-1] go
\* on the current line, which has space_left columns left.
LongWordEnd(t, e, f, space_left) ==
    LET hy == {h \in 0..(space_left - 1) : e + h < f /\ t[e + h] = "-"}
        hyphen == IF hy = {} THEN -1 ELSE Max(hy)
    IN  IF f - e > space_left /\ hyphen > 0
           /\ \E h \in 0..(hyphen - 1) : t[e + h] # "-"
        THEN hyphen + 1
        ELSE IF space_left < f - e THEN space_left ELSE f - e

(* TextWrapper._wrap_chunks, one line at a time.  B holds the chunk starts of  *)
(* t, pos1 is where the line starts, w is its width, e is where the chunks     *)
(* that fit end, long says that the chunk at e is longer than a line, newpos   *)
(* is where the line ends, lastStart is where its last chunk starts.           *)

\* The start of the chunk after position p, or the end of t
NextChunk(t, B, p) == Min({b \in B \cup {Len(t) + 1} : b > p})

\* A whitespace chunk at the start of a line that is not the first is dropped.
LineStart(t, B, pos, first) ==
    IF ~first /\ pos <= Len(t) /\ IsBlank(t, pos, NextChunk(t, B, pos) - 1)
    THEN NextChunk(t, B, pos) ELSE pos

\* The chunks that fit on the line end at e.
LineFit(t, B, pos1, w) ==
    LET fits == {b \in B \cup {Len(t) + 1} : b > pos1 /\ b - pos1 <= w}
    IN  IF fits = {} THEN pos1 ELSE Max(fits)

\* The line made: a blank last chunk is dropped, and no line is made of nothing.
LineTrim(pos1, newpos, lastStart, some, dropLast) ==
    [newpos |-> newpos,
     made |-> some /\ (~dropLast \/ lastStart > pos1),
     lineEnd |-> IF dropLast THEN lastStart - 1 ELSE newpos - 1]

LineLast(t, pos1, newpos, lastStart, some) ==
    LineTrim(pos1, newpos, lastStart, some, some /\ IsBlank(t, lastStart, newpos - 1))

\* A chunk longer than the line is broken (_handle_long_word).
LineBreak(t, B, pos1, e, long, space_left) ==
    LineLast(t, pos1,
             IF long THEN e + LongWordEnd(t, e, NextChunk(t, B, e), space_left) ELSE e,
             IF long THEN e ELSE Max({b \in B \cup {pos1} : b >= pos1 /\ b < e}),
             long \/ e > pos1)

LineCut(t, B, pos1, w, e) ==
    LineBreak(t, B, pos1, e, e <= Len(t) /\ NextChunk(t, B, e) - e > w,
              IF w < 1 THEN 1 ELSE w - (e - pos1))

RECURSIVE WrapChunks(_, _, _, _, _, _)
\* The line c that starts at pos1, and the lines after it
WrapRest(t, B, pos1, c, width, indent, first) ==
    (IF c.made THEN <<(IF first THEN <<>> ELSE indent) \o Sub(t, pos1, c.lineEnd)>>
     ELSE <<>>)
        \o WrapChunks(t, B, c.newpos, width, indent, first /\ ~c.made)

WrapLineAt(t, B, pos1, w, width, indent, first) ==
    IF pos1 > Len(t) THEN <<>>
    ELSE WrapRest(t, B, pos1, LineCut(t, B, pos1, w, LineFit(t, B, pos1, w)),
                  width, indent, first)

\* TextWrapper._wrap_chunks: the lines made of the chunks of t from position pos
\* on; first says that no line has been made yet.
WrapChunks(t, B, pos, width, indent, first) ==
    WrapLineAt(t, B, LineStart(t, B, pos, first),
               width - (IF first THEN 0 ELSE Len(indent)), width, indent, first)

\* textwrap.fill(s, width=width, subsequent_indent=indent)
fill(s, width, indent) ==
    LET t == Munge(s)
    IN  Join(WrapChunks(t, ChunkStarts(t), 1, width, indent, TRUE), <<"\n">>)

(***************************************************************************)
(* _wrap_non_code (lines 209-235).                                         *)
(***************************************************************************)
\* r'(```.*?```)', DOTALL (line 212)
FENCED_RE == <<Lit(S_fence), LazyRep(AnyChar, 0, -1), Lit(S_fence)>>

\* r'^(\s*(?:[-*+]|\d+\.)\s)' (lines 224-225), matched at the start of a line
LIST_PREFIX_RE ==
    <<Star(Space), Alt(<< <<One(Cls({"-", "*", "+"}))>>, <<Plus(Digit), Lit(<<".">>)>> >>),
      One(Space)>>

\* Lines 224-230: one line of a paragraph
WrapLine(line, width) ==
    LET m == M(LIST_PREFIX_RE, line, 1)
        prefix == Sub(line, 1, MEnd(m) - 1)
        body == Sub(line, MEnd(m), Len(line))
        wrapped == fill(body, width, [k \in 1..Len(prefix) |-> " "])
    IN  IF m = <<>> THEN line ELSE prefix \o wrapped

\* Lines 221-233: one paragraph
WrapPara(para, width) ==
    LET lines == splitlines(para)
        joined == [k \in 1..Len(lines) |-> WrapLine(lines[k], width)]
    IN  fill(Join(joined, <<"\n">>), width, <<>>)

\* Lines 218-234: a part outside the fenced regions
WrapPart(part, width) ==
    LET paras == split(part, <<"\n", "\n">>)
    IN  Join([k \in 1..Len(paras) |-> WrapPara(paras[k], width)], <<"\n", "\n">>)

\* Lines 212-235: the parts of re.split, the fenced regions (ms) kept as they are
WrapParts(s, ms, width) ==
    Concat([k \in 1..(Len(ms) + 1) |->
               WrapPart(Sub(s, IF k = 1 THEN 1 ELSE MEnd(ms[k - 1]),
                            IF k > Len(ms) THEN Len(s) ELSE MStart(ms[k]) - 1), width)
                   \o (IF k > Len(ms) THEN <<>> ELSE Group0(s, ms[k]))])

_wrap_non_code(s, width) ==
    IF width <= 0 THEN s ELSE WrapParts(s, FindAll(FENCED_RE, s, 1), width)

(***************************************************************************)
(* _collapse_long_code (lines 237-250).                                    *)
(***************************************************************************)
\* r'(```[^\n]*\n.*?```)', DOTALL (line 250)
CODE_FENCE_RE ==
    <<Lit(S_fence), Star(NotNewline), Lit(<<"\n">>), LazyRep(AnyChar, 0, -1), Lit(S_fence)>>

S_details_open == <<"<","d","e","t","a","i","l","s",">","\n","<","s","u","m","m","a","r","y",">">>
S_summary_close == <<"<","/","s","u","m","m","a","r","y",">","\n","\n">>
S_details_close == <<"\n","<","/","d","e","t","a","i","l","s",">","\n">>
S_view == <<"V","i","e","w"," ">>
S_lines == <<" ","l","i","n","e","s">>
S_of == <<" ","o","f"," ">>

\* repl (lines 238-249)
\* Line 247: summary, for n content lines
Summary(n, lang) ==
    S_view \o IntToStr(n) \o S_lines \o (IF lang # <<>> THEN S_of \o lang ELSE <<>>)

\* Lines 241-249: lines[1] is lang_line, and the lines after it are content_lines
CollapseLines(fence, lines, threshold_lines) ==
    IF Len(lines) <= 1 THEN fence
    ELSE IF Len(lines) - 1 >= threshold_lines
    THEN S_details_open \o Summary(Len(lines) - 1, strip(Sub(lines[1], 4, Len(lines[1]))))
             \o S_summary_close \o fence \o S_details_close
    ELSE fence

CollapseRepl(fence, threshold_lines) ==
    CollapseLines(fence, split(StripSet(fence, {"\n"}), <<"\n">>), threshold_lines)

_collapse_long_code(s, threshold_lines) ==
    LET ms == FindAll(CODE_FENCE_RE, s, 1)
    IN  Splice(s, ms, [k \in 1..Len(ms) |-> CollapseRepl(Group0(s, ms[k]), threshold_lines)],
               1, 1)

(***************************************************************************)
(* Anchors and same-file links (lines 194-206).                            *)
(***************************************************************************)
\* a.replace('[', '').replace(']', ''), then re.sub(r'[^a-z0-9\s\-]+', '', a)
AnchorKeep(c) == c \in LowerSet \cup DigitSet \cup WS \cup {"-"}

_md_anchor(label) ==
    StripSet(ReSub(<<Plus(Space)>>, <<"-">>, SelectSeq(LowerStr(label), AnchorKeep)), {"-"})

\* r'\[([^\]]+)\]\(#([^)]+)\)'
SAME_FILE_ANCHOR_RE ==
    <<Lit(<<"[">>), Mark, Plus(NotCls({"]"})), Mark, Lit(<<"]", "(", "#">>),
      Mark, Plus(NotCls({")"})), Mark, Lit(<<")">>)>>

\* repl (lines 203-205): f"[[#{head}|{text}]]"
ObsidianLink(s, m) ==
    <<"[", "[", "#">> \o Sub(s, m[4], m[5] - 1) \o <<"|">> \o Sub(s, m[2], m[3] - 1)
        \o <<"]", "]">>

rewrite_samefile_heading_links_to_obsidian(s) ==
    LET ms == FindAll(SAME_FILE_ANCHOR_RE, s, 1)
    IN  Splice(s, ms, [k \in 1..Len(ms) |-> ObsidianLink(s, ms[k])], 1, 1)

(***************************************************************************)
(* render_pretty_md (lines 261-344).                                       *)
(***************************************************************************)
EM_DASH == "U+2014"
S_light == <<"l","i","g","h","t">>
S_dark == <<"d","a","r","k">>
S_auto == <<"a","u","t","o">>
S_obsidian == <<"o","b","s","i","d","i","a","n">>
\* Lines 268-274, 276-284 and 286
S_style_dark ==
    <<"<","s","t","y","l","e",">","\n","b","o","d","y"," ","{"," ","b","a","c","k","g","r","o","u",
      "n","d","-","c","o","l","o","r",":"," ","#","0","d","1","1","1","7",";"," ","c","o","l",
      "o","r",":"," ","#","c","9","d","1","d","9",";"," ","}","\n","c","o","d","e",","," ","p",
      "r","e"," ","{"," ","b","a","c","k","g","r","o","u","n","d","-","c","o","l","o","r",":",
      " ","#","1","6","1","b","2","2",";"," ","c","o","l","o","r",":"," ","#","5","8","a","6",
      "f","f",";"," ","}","\n","a"," ","{"," ","c","o","l","o","r",":"," ","#","5","8","a","6",
      "f","f",";"," ","}","\n","h","1",","," ","h","2",","," ","h","3",","," ","h","4"," ","{",
      " ","c","o","l","o","r",":"," ","#","e","6","e","d","f","3",";"," ","}","\n","d","e","t",
      "a","i","l","s"," ",">"," ","s","u","m","m","a","r","y"," ","{"," ","c","u","r","s","o",
      "r",":"," ","p","o","i","n","t","e","r",";"," ","}","\n","<","/","s","t","y","l","e",">",
      "\n">>
S_style_auto ==
    <<"<","s","t","y","l","e",">","\n","@","m","e","d","i","a"," ","(","p","r","e","f","e","r","s",
      "-","c","o","l","o","r","-","s","c","h","e","m","e",":"," ","d","a","r","k",")"," ","{",
      "\n"," "," ","b","o","d","y"," ","{"," ","b","a","c","k","g","r","o","u","n","d","-","c",
      "o","l","o","r",":"," ","#","0","d","1","1","1","7",";"," ","c","o","l","o","r",":"," ",
      "#","c","9","d","1","d","9",";"," ","}","\n"," "," ","c","o","d","e",","," ","p","r","e",
      " ","{"," ","b","a","c","k","g","r","o","u","n","d","-","c","o","l","o","r",":"," ","#",
      "1","6","1","b","2","2",";"," ","c","o","l","o","r",":"," ","#","5","8","a","6","f","f",
      ";"," ","}","\n"," "," ","a"," ","{"," ","c","o","l","o","r",":"," ","#","5","8","a","6",
      "f","f",";"," ","}","\n"," "," ","h","1",","," ","h","2",","," ","h","3",","," ","h","4",
      " ","{"," ","c","o","l","o","r",":"," ","#","e","6","e","d","f","3",";"," ","}","\n"," ",
      " ","d","e","t","a","i","l","s"," ",">"," ","s","u","m","m","a","r","y"," ","{"," ","c",
      "u","r","s","o","r",":"," ","p","o","i","n","t","e","r",";"," ","}","\n","}","\n","<","/",
      "s","t","y","l","e",">","\n">>
S_front_matter == <<"-","-","-","\n","c","s","s","c","l","a","s","s",":"," ","d","a","r","k","-","t","h","e","m",
      "e","\n","-","-","-","\n">>
\* Line 289, with VERSION (line 20)
S_signature == <<"<","!","-","-"," ","G","e","n","e","r","a","t","e","d"," ","b","y"," ","E","c","h","o","F",
      "o","r","g","e"," ","v","1",".","1",".","7"," ","-","-",">","\n">>
\* Lines 340-342, with VERSION and PROJECT_URL (lines 20-21)
S_footer ==
    <<"\n","-","-","-","\n",">"," ","G","e","n","e","r","a","t","e","d"," ","b","y"," ","[","E","c",
      "h","o","F","o","r","g","e"," ","v","1",".","1",".","7","]","(","h","t","t","p","s",":",
      "/","/","g","i","t","h","u","b",".","c","o","m","/","n","o","c","t","-","m","l","/","e",
      "c","h","o","-","f","o","r","g","e",")"," ","U+2014"," ","\"","F","o","r","g","i","n","g",
      " ","e","c","h","o","e","s"," ","i","n","t","o"," ","c","l","a","r","i","t","y",".","\"",
      "\n">>
S_toc == <<"#","#"," ","T","a","b","l","e"," ","o","f"," ","C","o","n","t","e","n","t","s","\n">>
S_turns == <<"T","u","r","n","s">>
S_turns_head == <<"#","#"," ","T","u","r","n","s">>
S_turn == <<"T","u","r","n"," ">>
S_chatgpt == <<"C","h","a","t","G","P","T">>
S_chat_transcript == <<"C","h","a","t"," ","T","r","a","n","s","c","r","i","p","t">>

\* str.title()
Title(s) ==
    [k \in 1..Len(s) |->
        IF k = 1 \/ s[k - 1] \notin LowerSet \cup UpperSet \cup ComposedSet
        THEN upper(s[k]) ELSE lower(s[k])]

\* Lines 311 and 323 (and 388, 410): the label of a turn
LabelOf(role, user_label) ==
    IF role = S_user /\ user_label # <<>> THEN user_label
    ELSE IF role = S_assistant THEN S_chatgpt
    ELSE Title(role)

\* Line 312: f"Turn {i:03d} -- {label}", the dash being U+2014
TurnHead(n, role, user_label) ==
    S_turn \o Pad3(n) \o <<" ", EM_DASH, " ">> \o LabelOf(role, user_label)

\* _mk_toc_link (lines 298-302)
_mk_toc_link(label, theme) ==
    IF theme = S_obsidian
    THEN <<"[", "[", "#">> \o label \o <<"|">> \o label \o <<"]", "]">>
    ELSE <<"[">> \o label \o <<"]", "(", "#">> \o _md_anchor(label) \o <<")">>

\* A variant of toc_lines that lists the turns from depth 2 on
TocLinesFromTwo(bs, c) ==
    (IF c.toc_depth >= 1 THEN << <<"-", " ">> \o _mk_toc_link(c.title, c.theme) >> ELSE <<>>)
    \o (IF c.toc_depth >= 2 THEN << <<"-", " ">> \o _mk_toc_link(S_turns, c.theme) >> ELSE <<>>)
    \o (IF c.toc_depth >= 2
        THEN [n \in 1..Len(bs) |->
                 <<" ", " ", "-", " ">>
                     \o _mk_toc_link(TurnHead(n, bs[n][1], c.user_label), c.theme)]
        ELSE <<>>)

\* Lines 304-313: toc_lines
TocLines(bs, c) ==
    (IF c.toc_depth >= 1 THEN << <<"-", " ">> \o _mk_toc_link(c.title, c.theme) >> ELSE <<>>)
    \o (IF c.toc_depth >= 2 THEN << <<"-", " ">> \o _mk_toc_link(S_turns, c.theme) >> ELSE <<>>)
    \o (IF c.toc_depth >= 3
        THEN [n \in 1..Len(bs) |->
                 <<" ", " ", "-", " ">>
                     \o _mk_toc_link(TurnHead(n, bs[n][1], c.user_label), c.theme)]
        ELSE <<>>)

\* Lines 264-319: md before the body
RenderHead(bs, c) ==
    (IF c.theme = S_dark THEN <<S_style_dark>>
     ELSE IF c.theme = S_auto THEN <<S_style_auto>>
     ELSE IF c.theme = S_obsidian THEN <<S_front_matter>>
     ELSE <<>>)
    \o <<S_signature, <<"#", " ">> \o c.title \o <<"\n">> >>
    \o (IF c.toc_depth > 0 THEN <<S_toc>> \o TocLines(bs, c) \o << <<>> >> ELSE <<>>)
    \o (IF c.toc_depth >= 2 THEN <<S_turns_head, <<>> >> ELSE <<>>)

\* Lines 327-331: the text of one turn
\* (326-329, and 407-410, 424-426: label artifacts stripped, links rewritten if asked)
ObsidianLinks(s, on) == IF on THEN rewrite_samefile_heading_links_to_obsidian(s) ELSE s

TidyText(s, c) == ObsidianLinks(strip_label_artifacts(s), c.obsidian_links)

\* (330-331, and 411-412, 435-436: wrapped if max_width > 0)
WrapTo(s, width) == IF width > 0 THEN _wrap_non_code(s, width) ELSE s

TurnText(txt, c) == WrapTo(TidyText(txt, c), c.max_width)

\* Lines 323-333: what turn n appends to md
RenderTurn(n, role, txt, c) ==
    << <<"#", "#", "#", " ">> \o TurnHead(n, role, c.user_label), <<>>, TurnText(txt, c), <<>> >>

\* Lines 335-344
RenderFinish(parts, c) ==
    _collapse_long_code(strip(Join(parts, <<"\n">>)) \o <<"\n">>, 14)
        \o (IF c.signature THEN S_footer ELSE <<>>)

(***************************************************************************)
(* The program as a state machine.  pc is the statement about to run; a    *)
(* function that is called from several places (clean_plain_text,          *)
(* apply_code_markdown) returns to ret.  The JSONL branch of               *)
(* extract_text_only (lines 380-389) is not modelled.                      *)
(***************************************************************************)

\* ---- clean_plain_text (lines 103-151), entered at "stash" with text = s ----

\* Lines 113-128: the <pre><code> regions are stashed.
StashCode ==
    /\ pc = "stash"
    /\ code_blocks' = CodeBlocks(text)
    /\ text' = Stashed(text)
    /\ stashed' = stashed \o code_blocks'
    /\ pc' = "markup"
    /\ UNCHANGED <<ret, cfg, raw, matches, turn, blocks, i, out, code_payload, md, doc,
                   spans, pass, prev>>

\* Lines 131-133: breaking tags to newlines, comments/script/style and tags removed.
StripMarkup ==
    /\ pc = "markup"
    /\ text' = ReSub(TAG_RE, <<>>,
                     ReSub(TAG_BLOCKS_RE, <<>>, ReSub(BREAKERS_RE, <<"\n">>, text)))
    /\ pc' = "decode"
    /\ UNCHANGED <<ret, cfg, raw, code_blocks, matches, turn, blocks, i, out, code_payload,
                   md, doc, stashed, spans, pass, prev>>

\* Lines 134-136: entities decoded, NFC, layout words blanked.
Decode ==
    /\ pc = "decode"
    /\ text' = ReSub(LAYOUT_WORD_RE, <<" ">>, NFC(unescape(text)))
    /\ pc' = "whitespace"
    /\ UNCHANGED <<ret, cfg, raw, code_blocks, matches, turn, blocks, i, out, code_payload,
                   md, doc, stashed, spans, pass, prev>>

\* Lines 137-140: character filter, whitespace collapse, blank lines, strip.
Whitespace ==
    /\ pc = "whitespace"
    /\ text' = strip(ReSub(BLANK_LINES_RE, <<"\n", "\n">>,
                           _collapse_ws_preserve_indent(FilterChars(text))))
    /\ pc' = "unstash"
    /\ UNCHANGED <<ret, cfg, raw, code_blocks, matches, turn, blocks, i, out, code_payload,
                   md, doc, stashed, spans, pass, prev>>

\* Lines 143-151: the code blocks are re-inserted, and the function returns.
UnstashCode ==
    /\ pc = "unstash"
    /\ text' = strip(Unstashed(text, code_blocks))
    /\ pc' = ret
    /\ UNCHANGED <<ret, cfg, raw, code_blocks, matches, turn, blocks, i, out, code_payload,
                   md, doc, stashed, spans, pass, prev>>

\* The sanitizer is run a second time, on what it returned.
Resanitize ==
    /\ pc = "cleaned" /\ pass = 1
    /\ prev' = text
    /\ pass' = 2
    /\ pc' = "stash"
    /\ UNCHANGED <<ret, cfg, raw, text, code_blocks, matches, turn, blocks, i, out,
                   code_payload, md, doc, stashed, spans>>

\* ---- extract_speaker_blocks (lines 346-358), entered at "esb" ----

\* Lines 348-349, the call: no match, the whole document is sanitized.
EsbNoMatch ==
    /\ pc = "esb" /\ RoleMatches(raw) = <<>>
    /\ text' = raw
    /\ ret' = "esb_unknown"
    /\ pc' = "stash"
    /\ UNCHANGED <<cfg, raw, code_blocks, matches, turn, blocks, i, out, code_payload, md,
                   doc, stashed, spans, pass, prev>>

\* Line 349, the return: one turn of role "unknown".
EsbUnknown ==
    /\ pc = "esb_unknown"
    /\ blocks' = << <<S_unknown, text>> >>
    /\ pc' = "blocks"
    /\ UNCHANGED <<ret, cfg, raw, text, code_blocks, matches, turn, i, out, code_payload,
                   md, doc, stashed, spans, pass, prev>>

\* Lines 347 and 350
EsbMatches ==
    /\ pc = "esb" /\ RoleMatches(raw) # <<>>
    /\ matches' = RoleMatches(raw)
    /\ blocks' = <<>>
    /\ turn' = 1
    /\ pc' = "esb_next"
    /\ UNCHANGED <<ret, cfg, raw, text, code_blocks, i, out, code_payload, md, doc,
                   stashed, spans, pass, prev>>

\* Lines 351-355, up to the call of clean_plain_text
EsbChunk ==
    /\ pc = "esb_next" /\ turn <= Len(matches)
    /\ text' = ChunkHtml(raw, matches[turn])
    /\ ret' = "esb_append"
    /\ pc' = "stash"
    /\ UNCHANGED <<cfg, raw, code_blocks, matches, turn, blocks, i, out, code_payload, md,
                   doc, stashed, spans, pass, prev>>

\* Lines 355-357: the turn is kept if its sanitized text is not blank.
EsbAppend ==
    /\ pc = "esb_append"
    /\ blocks' = IF strip(text) # <<>>
                 THEN Append(blocks, <<RoleOf(raw, matches[turn]), strip(text)>>)
                 ELSE blocks
    /\ spans' = Append(spans, <<RoleOf(raw, matches[turn]), text>>)
    /\ turn' = turn + 1
    /\ pc' = "esb_next"
    /\ UNCHANGED <<ret, cfg, raw, text, code_blocks, matches, i, out, code_payload, md,
                   doc, stashed, pass, prev>>

\* Line 358
EsbReturn ==
    /\ pc = "esb_next" /\ turn > Len(matches)
    /\ pc' = "blocks"
    /\ UNCHANGED <<ret, cfg, raw, text, code_blocks, matches, turn, blocks, i, out,
                   code_payload, md, doc, stashed, spans, pass, prev>>

\* ---- apply_code_markdown (lines 175-191), entered at "acm" with i = 0, out = [] ----

\* Lines 183-190: a marker is found and a fenced block is built.
AcmBlock ==
    /\ pc = "acm" /\ AcmOpen(text, i) # <<>>
    /\ LET m == AcmOpen(text, i)
       IN  /\ out' = out \o <<Sub(text, i + 1, MStart(m) - 1), AcmFence(text, m)>>
           /\ code_payload' = AcmPayload(text, m)
           /\ i' = AcmEnd(text, m)
    /\ UNCHANGED <<pc, ret, cfg, raw, text, code_blocks, matches, turn, blocks, md, doc,
                   stashed, spans, pass, prev>>

\* Lines 180-182 and 191: no marker is left, the function returns "".join(out).
AcmReturn ==
    /\ pc = "acm" /\ AcmOpen(text, i) = <<>>
    /\ out' = Append(out, Sub(text, i + 1, Len(text)))
    /\ text' = Concat(out')
    /\ pc' = ret
    /\ UNCHANGED <<ret, cfg, raw, code_blocks, matches, turn, blocks, i, code_payload, md,
                   doc, stashed, spans, pass, prev>>

\* ---- render_pretty_md (lines 261-344), entered at "render" with blocks ----

\* Lines 264-319
RenderStart ==
    /\ pc = "render"
    /\ md' = RenderHead(blocks, cfg)
    /\ turn' = 1
    /\ pc' = "render_turn"
    /\ UNCHANGED <<ret, cfg, raw, text, code_blocks, matches, blocks, i, out, code_payload,
                   doc, stashed, spans, pass, prev>>

\* Lines 322-333, one turn
RenderBody ==
    /\ pc = "render_turn" /\ turn <= Len(blocks)
    /\ md' = md \o RenderTurn(turn, blocks[turn][1], blocks[turn][2], cfg)
    /\ turn' = turn + 1
    /\ UNCHANGED <<pc, ret, cfg, raw, text, code_blocks, matches, blocks, i, out,
                   code_payload, doc, stashed, spans, pass, prev>>

\* Lines 335-344, and the write of lines 400-401 or 432-433
RenderEnd ==
    /\ pc = "render_turn" /\ turn > Len(blocks)
    /\ doc' = RenderFinish(md, cfg)
    /\ pc' = "done"
    /\ UNCHANGED <<ret, cfg, raw, text, code_blocks, matches, turn, blocks, i, out,
                   code_payload, md, stashed, spans, pass, prev>>

\* ---- _wrap_non_code and _collapse_long_code on their own ----

\* _wrap_non_code(text, width=max_width) (lines 209-235)
Wrap ==
    /\ pc = "wrap"
    /\ doc' = _wrap_non_code(text, cfg.max_width)
    /\ pc' = "done"
    /\ UNCHANGED <<ret, cfg, raw, text, code_blocks, matches, turn, blocks, i, out,
                   code_payload, md, stashed, spans, pass, prev>>

\* _collapse_long_code(out, threshold_lines=14) (line 336)
Collapse ==
    /\ pc = "collapse"
    /\ doc' = _collapse_long_code(text, 14)
    /\ pc' = "done"
    /\ UNCHANGED <<ret, cfg, raw, text, code_blocks, matches, turn, blocks, i, out,
                   code_payload, md, stashed, spans, pass, prev>>

\* ---- extract_text_only (lines 366-444), entered at "main" ----

\* Lines 440-444 and 415-419: the footer of a Markdown output
Footer(c) == IF c.signature /\ c.md_output THEN S_footer ELSE <<>>

\* f"--- {i:03d} [{label}] ---\n" (line 413)
TurnMarker(n, role, user_label) ==
    <<"-", "-", "-", " ">> \o Pad3(n) \o <<" ", "[">> \o LabelOf(role, user_label)
        \o <<"]", " ", "-", "-", "-", "\n">>

\* Lines 373-379: the flags are honoured; by speaker.
MainBySpeaker ==
    /\ pc = "main" /\ cfg.by_speaker
    /\ cfg' = [cfg EXCEPT !.toc_depth = IF cfg.no_toc THEN 0 ELSE @,
                          !.signature = ~cfg.no_signature]
    /\ pc' = "esb"
    /\ UNCHANGED <<ret, raw, text, code_blocks, matches, turn, blocks, i, out,
                   code_payload, md, doc, stashed, spans, pass, prev>>

\* Lines 373-376 and 421: the flags are honoured; the whole document is sanitized.
MainWhole ==
    /\ pc = "main" /\ ~cfg.by_speaker
    /\ cfg' = [cfg EXCEPT !.toc_depth = IF cfg.no_toc THEN 0 ELSE @,
                          !.signature = ~cfg.no_signature]
    /\ text' = raw
    /\ ret' = "whole"
    /\ pc' = "stash"
    /\ UNCHANGED <<raw, code_blocks, matches, turn, blocks, i, out, code_payload, md, doc,
                   stashed, spans, pass, prev>>

\* Lines 393 and 404: the loop over the blocks starts.
BlocksStart ==
    /\ pc = "blocks"
    /\ turn' = 1
    /\ pc' = "turn"
    /\ UNCHANGED <<ret, cfg, raw, text, code_blocks, matches, blocks, i, out, code_payload,
                   md, doc, stashed, spans, pass, prev>>

\* Lines 394-395 and 405-406: apply_code_markdown is called on the block's text.
TurnMarkdown ==
    /\ pc = "turn" /\ turn <= Len(blocks) /\ cfg.markdown
    /\ text' = blocks[turn][2]
    /\ i' = 0
    /\ out' = <<>>
    /\ ret' = "turn_text"
    /\ pc' = "acm"
    /\ UNCHANGED <<cfg, raw, code_blocks, matches, turn, blocks, code_payload, md, doc,
                   stashed, spans, pass, prev>>

\* Lines 394 and 405 with --no-markdown
TurnNoMarkdown ==
    /\ pc = "turn" /\ turn <= Len(blocks) /\ ~cfg.markdown
    /\ text' = blocks[turn][2]
    /\ pc' = "turn_text"
    /\ UNCHANGED <<ret, cfg, raw, code_blocks, matches, turn, blocks, i, out, code_payload,
                   md, doc, stashed, spans, pass, prev>>

\* Line 396: proc_blocks.append((role, text))
TurnKeep ==
    /\ pc = "turn_text" /\ cfg.pretty_md
    /\ blocks' = [blocks EXCEPT ![turn] = <<@[1], text>>]
    /\ turn' = turn + 1
    /\ pc' = "turn"
    /\ UNCHANGED <<ret, cfg, raw, text, code_blocks, matches, i, out, code_payload, md, doc,
                   stashed, spans, pass, prev>>

\* Lines 407-413: the turn is written.
TurnWrite ==
    /\ pc = "turn_text" /\ ~cfg.pretty_md
    /\ doc' = doc \o TurnMarker(turn, blocks[turn][1], cfg.user_label)
                  \o TurnText(text, cfg) \o <<"\n", "\n">>
    /\ turn' = turn + 1
    /\ pc' = "turn"
    /\ UNCHANGED <<ret, cfg, raw, text, code_blocks, matches, blocks, i, out, code_payload,
                   md, stashed, spans, pass, prev>>

\* Lines 397-399: render_pretty_md is called on proc_blocks.
TurnsRender ==
    /\ pc = "turn" /\ turn > Len(blocks) /\ cfg.pretty_md
    /\ pc' = "render"
    /\ UNCHANGED <<ret, cfg, raw, text, code_blocks, matches, turn, blocks, i, out,
                   code_payload, md, doc, stashed, spans, pass, prev>>

\* Lines 414-419
TurnsFooter ==
    /\ pc = "turn" /\ turn > Len(blocks) /\ ~cfg.pretty_md
    /\ doc' = doc \o Footer(cfg)
    /\ pc' = "done"
    /\ UNCHANGED <<ret, cfg, raw, text, code_blocks, matches, turn, blocks, i, out,
                   code_payload, md, stashed, spans, pass, prev>>

\* Lines 422-423
WholeMarkdown ==
    /\ pc = "whole" /\ cfg.markdown
    /\ i' = 0
    /\ out' = <<>>
    /\ ret' = "whole_text"
    /\ pc' = "acm"
    /\ UNCHANGED <<cfg, raw, text, code_blocks, matches, turn, blocks, code_payload, md,
                   doc, stashed, spans, pass, prev>>

\* Line 422 with --no-markdown
WholeNoMarkdown ==
    /\ pc = "whole" /\ ~cfg.markdown
    /\ pc' = "whole_text"
    /\ UNCHANGED <<ret, cfg, raw, text, code_blocks, matches, turn, blocks, i, out,
                   code_payload, md, doc, stashed, spans, pass, prev>>

\* Lines 424-431: render_pretty_md is called on one turn of role "unknown".
WholeRender ==
    /\ pc = "whole_text" /\ cfg.pretty_md
    /\ text' = TidyText(text, cfg)
    /\ blocks' = << <<S_unknown, text'>> >>
    /\ pc' = "render"
    /\ UNCHANGED <<ret, cfg, raw, code_blocks, matches, turn, i, out, code_payload, md, doc,
                   stashed, spans, pass, prev>>

\* Lines 424-426 and 435-444: the text is wrapped and written.
WholeWrite ==
    /\ pc = "whole_text" /\ ~cfg.pretty_md
    /\ text' = TidyText(text, cfg)
    /\ doc' = WrapTo(text', cfg.max_width) \o Footer(cfg)
    /\ pc' = "done"
    /\ UNCHANGED <<ret, cfg, raw, code_blocks, matches, turn, blocks, i, out, code_payload,
                   md, stashed, spans, pass, prev>>

(***************************************************************************)
(* Initial states.  Every specification starts the machine at the entry    *)
(* of one function, on inputs made of a few pieces each.                   *)
(***************************************************************************)
\* The defaults of parse_args (lines 446-462); md_output: output_file ends in ".md"
\* (line 364), signature: add_signature (line 376).
DefaultCfg ==
    [by_speaker |-> FALSE, markdown |-> TRUE, pretty_md |-> FALSE, max_width |-> 0,
     toc_depth |-> 0, title |-> S_chat_transcript, theme |-> S_light, user_label |-> <<>>,
     obsidian_links |-> FALSE, no_toc |-> FALSE, no_signature |-> FALSE,
     signature |-> TRUE, md_output |-> TRUE]

\* The machine at position p, returning to r, with options c, document d, text s
\* and turns bs.
StartAt(p, r, c, d, s, bs) ==
    /\ pc = p /\ ret = r /\ cfg = c /\ raw = d /\ text = s /\ blocks = bs
    /\ code_blocks = <<>> /\ matches = <<>> /\ turn = 1 /\ i = 0 /\ out = <<>>
    /\ code_payload = <<>> /\ md = <<>> /\ doc = <<>> /\ stashed = <<>> /\ spans = <<>>
    /\ pass = 1 /\ prev = <<>>

RECURSIVE Cat(_, _)
\* The concatenations of at most n pieces of P.
Cat(P, n) ==
    IF n = 0 THEN {<<>>}
    ELSE LET S == Cat(P, n - 1) IN S \cup {x \o y : x \in S, y \in P}

RECURSIVE Seqs(_, _)
\* The sequences of at most n elements of P.
Seqs(P, n) ==
    IF n = 0 THEN {<<>>}
    ELSE LET S == Seqs(P, n - 1) IN S \cup {Append(x, y) : x \in S, y \in P}

\* ---- documents for the sanitizer ----
MaxPieces == 3
P_region == <<"<","p","r","e",">","<","c","o","d","e",">","x","\n"," "," ","y","<","/","c","o","d","e",">",
      "<","/","p","r","e",">">>
P_open == <<"<","p","r","e",">","<","c","o","d","e",">">>
P_close == <<"<","/","c","o","d","e",">","<","/","p","r","e",">">>
P_token0 == <<"_","_","E","C","H","O","F","O","R","G","E","_","C","O","D","E","B","L","O","C","K","_","0",
      "_","_">>
P_lt == <<"a"," ","<"," ","b"," ">>
P_gt == <<" ","c"," ",">"," ","d">>
P_enc_tag == <<"&","l","t",";","b","&","g","t",";","w">>
P_enc_amp == <<"&","a","m","p",";","l","t",";">>
P_comment_open == <<"<","!","-","-"," ">>
P_comment_close == <<" ","-","-",">">>
P_para == <<"<","p",">","h","i","<","/","p",">">>
CleanPieces ==
    {P_region, P_open, P_close, P_token0, P_lt, P_gt, P_enc_tag, P_enc_amp,
     P_comment_open, P_comment_close, P_para}

InitClean ==
    \E d \in Cat(CleanPieces, MaxPieces) : StartAt("stash", "cleaned", DefaultCfg, d, d, <<>>)

\* ---- documents for the segmenter ----
MaxChunks == 4
P_user_open ==
    <<"<","d","i","v"," ","d","a","t","a","-","m","e","s","s","a","g","e","-","a","u","t","h","o",
      "r","-","r","o","l","e","=","\"","u","s","e","r","\"">>
P_assistant_open ==
    <<"<","d","i","v"," ","d","a","t","a","-","m","e","s","s","a","g","e","-","a","u","t","h","o",
      "r","-","r","o","l","e","=","\"","a","s","s","i","s","t","a","n","t","\"">>
P_hi == <<">","h","i","<","/","d","i","v",">">>
P_yo == <<">","y","o","<","/","d","i","v",">","\n">>
P_empty_body == <<">","<","/","d","i","v",">">>
P_id_attr == <<" ","i","d","=","\"","a","\"">>
RolePieces ==
    {P_user_open, P_assistant_open, P_hi, P_yo, P_empty_body, P_id_attr}

InitBlocks ==
    \E d \in Cat(RolePieces, MaxChunks) :
        StartAt("esb", "done", [DefaultCfg EXCEPT !.by_speaker = TRUE], d, <<>>, <<>>)

\* ---- texts for apply_code_markdown: a marker, then some lines ----
MaxLines == 3
P_marker == <<"p","y","t","h","o","n","\n","C","o","p","y"," ","c","o","d","e","\n">>
L_code == <<"x","=","1">>
L_upper_lang == <<"S","Q","L">>
L_lang == <<"s","q","l">>
L_heading == <<"#"," ","h">>
L_you_said == <<"Y","o","u"," ","s","a","i","d",":">>
L_chatgpt_said == <<"C","h","a","t","G","P","T"," ","s","a","i","d",":">>
L_quick == <<"Q","u","i","c","k"," ","e","x","t","r","a","s",":">>
L_item == <<"-"," ","a">>
L_numbered == <<"1","."," ","b">>
L_details == <<"<","d","e","t","a","i","l","s",">">>
L_turn_marker == <<"-","-","-"," ","0","0","1"," ","[","U","]"," ","-","-","-">>
L_copy == <<"C","o","p","y"," ","c","o","d","e">>
CodeLines ==
    {L_code, L_upper_lang, L_lang, L_heading, L_you_said, L_chatgpt_said, L_quick, L_item,
     L_numbered, L_details, L_turn_marker, L_copy, S_fence, <<>>}

CodeTexts == {P_marker \o Join(ls, <<"\n">>) : ls \in Seqs(CodeLines, MaxLines)}

InitCode == \E s \in CodeTexts : StartAt("acm", "done", DefaultCfg, s, s, <<>>)

\* ---- texts for _wrap_non_code ----
MaxWrapLines == 4
W_item == <<"-"," ","a","a","a"," ","b","b","b"," ","c","c","c">>
W_item2 == <<"-"," ","b">>
W_numbered == <<"1","."," ","o","n","e"," ","t","w","o">>
W_plain == <<"s","o","m","e"," ","p","l","a","i","n"," ","w","o","r","d","s">>
W_inline == <<"a"," ",GRAVE,GRAVE,GRAVE," ","b">>
W_indented == <<" "," ","c"," "," "," ","d">>
WrapLineSet == {W_item, W_item2, W_numbered, W_plain, W_inline, W_indented, S_fence, <<>>}
Widths == {0, 8}

InitWrap ==
    \E ls \in Seqs(WrapLineSet, MaxWrapLines), w \in Widths :
        StartAt("wrap", "done", [DefaultCfg EXCEPT !.max_width = w],
                Join(ls, <<"\n">>), Join(ls, <<"\n">>), <<>>)

\* ---- texts for _collapse_long_code: a fenced block of n payload lines ----
MaxPayload == 16
F_py == <<"p","y">>
F_before == <<"a","\n">>
F_after == <<"\n","z">>
\* the opening fence line, n payload lines, the closing fence
FencedText(lang, n) ==
    S_fence \o lang \o <<"\n">> \o Concat([k \in 1..n |-> <<"x", "\n">>]) \o S_fence

InitCollapse ==
    \E n \in 0..MaxPayload, lang \in {<<>>, F_py}, b \in {<<>>, F_before},
       a \in {<<>>, <<"\n">>, F_after} :
        StartAt("collapse", "done", DefaultCfg, b \o FencedText(lang, n) \o a,
                b \o FencedText(lang, n) \o a, <<>>)

\* ---- turns and options for render_pretty_md ----
MaxTurns == 3
MaxTocDepth == 4
T_hi == <<"h","i">>
T_james == <<"J","a","m","e","s">>
Roles == {S_user, S_assistant, S_unknown}
TurnSeqs == Seqs({<<r, T_hi>> : r \in Roles}, MaxTurns)

InitRender ==
    \E bs \in TurnSeqs, d \in 0..MaxTocDepth, th \in {S_light, S_obsidian},
       ul \in {<<>>, T_james} :
        StartAt("render", "done",
                [DefaultCfg EXCEPT !.pretty_md = TRUE, !.toc_depth = d, !.theme = th,
                                   !.user_label = ul],
                <<>>, <<>>, bs)

\* ---- texts for the scan loop of apply_code_markdown: any number of markers ----
MaxScanPieces == 4
Q_upper_marker == <<"S","Q","L","\n","C","o","p","y"," ","c","o","d","e","\n">>
Q_code == <<"x","=","1","\n">>
Q_item == <<"-"," ","a","\n">>
Q_lang == <<"s","q","l","\n">>
ScanPieces == {P_marker, Q_upper_marker, Q_code, Q_item, Q_lang}

InitScan ==
    \E s \in Cat(ScanPieces, MaxScanPieces) : StartAt("acm", "done", DefaultCfg, s, s, <<>>)

\* ---- documents and options for extract_text_only ----
MaxDocPieces == 2
D_user ==
    <<"<","d","i","v"," ","d","a","t","a","-","m","e","s","s","a","g","e","-","a","u","t","h","o",
      "r","-","r","o","l","e","=","\"","u","s","e","r","\"",">">>
D_assistant ==
    <<"<","d","i","v"," ","d","a","t","a","-","m","e","s","s","a","g","e","-","a","u","t","h","o",
      "r","-","r","o","l","e","=","\"","a","s","s","i","s","t","a","n","t","\"",">">>
D_hi == <<"h","i","<","/","d","i","v",">">>
D_code ==
    <<"<","p","r","e",">","<","c","o","d","e",">","a","\n","\n","\n","\n"," "," ","b","<","/","c",
      "o","d","e",">","<","/","p","r","e",">">>
D_marker == <<"p","y","t","h","o","n","\n","C","o","p","y"," ","c","o","d","e","\n","x"," ","="," ","1","\n">>
D_item == <<"-"," ","a","a","a"," ","b","b","b"," ","c","c","c","\n">>
DocPieces == {D_user, D_assistant, D_hi, D_code, D_marker, D_item}

Cfgs ==
    {[DefaultCfg EXCEPT !.by_speaker = bsp, !.markdown = mk, !.pretty_md = pm,
                        !.max_width = w, !.toc_depth = 3, !.no_toc = nt]
        : bsp \in BOOLEAN, mk \in BOOLEAN, pm \in BOOLEAN, w \in Widths, nt \in BOOLEAN}

Init ==
    \E d \in Cat(DocPieces, MaxDocPieces), c \in Cfgs :
        StartAt("main", "done", c, d, <<>>, <<>>)

(***************************************************************************)
(* Specifications.                                                         *)
(***************************************************************************)
CleanNext == StashCode \/ StripMarkup \/ Decode \/ Whitespace \/ UnstashCode

EsbNext == EsbNoMatch \/ EsbUnknown \/ EsbMatches \/ EsbChunk \/ EsbAppend \/ EsbReturn

AcmNext == AcmBlock \/ AcmReturn

RenderNext == RenderStart \/ RenderBody \/ RenderEnd

MainNext ==
    \/ MainBySpeaker \/ MainWhole \/ BlocksStart
    \/ TurnMarkdown \/ TurnNoMarkdown \/ TurnKeep \/ TurnWrite \/ TurnsRender \/ TurnsFooter
    \/ WholeMarkdown \/ WholeNoMarkdown \/ WholeRender \/ WholeWrite

\* extract_text_only on a document
Next == MainNext \/ EsbNext \/ CleanNext \/ AcmNext \/ RenderNext
Spec == Init /\ [][Next]_vars

\* clean_plain_text on a document, and once more on what it returned
SpecClean == InitClean /\ [][CleanNext \/ Resanitize]_vars

\* extract_speaker_blocks on a document
SpecBlocks == InitBlocks /\ [][EsbNext \/ CleanNext]_vars

\* apply_code_markdown on a text
SpecCode == InitCode /\ [][AcmNext]_vars

\* The while loop of lines 178-190 is sequential code: while the program is in
\* it, it goes on to the next iteration.  This is weak fairness of AcmNext,
\* WF_vars(AcmNext), with the enabling condition written out: at pc = "acm"
\* the guard of AcmBlock or that of AcmReturn holds, and either step changes out.
ScanFair == <>[](pc = "acm") => []<><<AcmNext>>_vars

\* apply_code_markdown on a text of several markers, the loop running on
SpecScan == InitScan /\ [][AcmNext]_vars /\ ScanFair

\* _wrap_non_code on a text
SpecWrap == InitWrap /\ [][Wrap]_vars

\* _collapse_long_code on a text
SpecCollapse == InitCollapse /\ [][Collapse]_vars

\* render_pretty_md on a sequence of turns
SpecRender == InitRender /\ [][RenderNext]_vars

(***************************************************************************)
(* Properties.                                                             *)
(***************************************************************************)
\* What clean_plain_text emits for a stashed content (line 148)
Fenced(content) == S_fence \o <<"\n">> \o content \o <<"\n">> \o S_fence

\* The placeholder tokens of s, and the index a token names
Tokens(s) == FindAll(CODE_MARKER_RE, s, 1)
TokenIndex(s, m) == StrToInt(Group1(s, m))

\* The ```...``` regions of s, left to right
FencedBlocksOf(s) ==
    [k \in 1..Len(FindAll(FENCED_RE, s, 1)) |-> Group0(s, FindAll(FENCED_RE, s, 1)[k])]

\* s without its whitespace
NoWs(s) == SelectSeq(s, LAMBDA c : c \notin WS \cup {"\f"})

\* ---------------------------------------------------------------- C1 ----
\* C1: when extract_text_only has written its output, the content of every
\* <pre><code> region that clean_plain_text stashed (tags stripped, entities
\* decoded, NFC, newlines normalised, outer blank lines trimmed) stands in the
\* output inside a fenced block, character for character: its indentation and
\* its internal blank lines are as they were stashed.
C1_CodeVerbatim ==
    pc = "done" => \A k \in 1..Len(stashed) : Contains(doc, Fenced(stashed[k]))

\* The case of C1: a document with a <pre><code> region has been written out.
C1_Written == pc = "done" /\ stashed # <<>> /\ ~cfg.by_speaker

\* ---------------------------------------------------------------- C2 ----
\* C2 as stated: what clean_plain_text returns holds no placeholder token
\* __ECHOFORGE_CODEBLOCK_<n>__, whatever the input.
C2_NoTokenVisible == pc = "cleaned" => Tokens(text) = <<>>

\* Every token of s names one of the blocks cbs.
TokensInRange(s, cbs) == \A m \in Range(Tokens(s)) : TokenIndex(s, m) < Len(cbs)

\* No block that a token of s names holds a token itself.
NamedBlocksTokenFree(s, cbs) ==
    \A m \in Range(Tokens(s)) :
        TokenIndex(s, m) < Len(cbs) => Tokens(cbs[TokenIndex(s, m) + 1]) = <<>>

\* C2, amended: the re-insertion step replaces the tokens whose index is below
\* the number of stashed blocks and leaves the others as they are, so what
\* clean_plain_text returns holds no placeholder token exactly when every
\* token of the sanitized text names a stashed block and none of the blocks
\* named holds a token in its own content.
C2_TokensReplaced ==
    [][pc = "unstash" =>
          ((Tokens(text') = <<>>)
              <=> (TokensInRange(text, code_blocks)
                     /\ NamedBlocksTokenFree(text, code_blocks)))]_vars

\* The case of C2: the document held a literal token beside a region, the token
\* named the stashed block, and the output holds no token.
C2_LiteralTokenReplaced ==
    /\ pc = "cleaned" /\ pass = 1
    /\ Contains(raw, P_token0) /\ code_blocks # <<>>
    /\ Tokens(text) = <<>>

\* ---------------------------------------------------------------- C3 ----
\* C3: the fenced blocks of what clean_plain_text returns are the stashed
\* regions, each one once and in document order.
C3_OneToOne ==
    pc = "cleaned" /\ pass = 1 =>
        FencedBlocksOf(text) = [k \in 1..Len(code_blocks) |-> Fenced(code_blocks[k])]

\* The case of C3: a region was stashed and the output is returned.
C3_Returned == pc = "cleaned" /\ pass = 1 /\ code_blocks # <<>>

\* ---------------------------------------------------------------- C4 ----
\* The role markers as the claim writes them
UserMarker == S_role_attr \o S_user \o <<"\"">>
AssistantMarker == S_role_attr \o S_assistant \o <<"\"">>

\* How often lit occurs in s
Occurrences(s, lit) == Cardinality({q \in 1..Len(s) : LitAt(s, q, lit, FALSE)})

\* s holds exactly one user marker, and after it exactly one assistant marker.
OneUserThenAssistant(s) ==
    /\ Occurrences(s, UserMarker) = 1
    /\ Occurrences(s, AssistantMarker) = 1
    /\ Find(s, UserMarker, 1) < Find(s, AssistantMarker, 1)

\* C4 as stated: for a document with one user marker followed by one assistant
\* marker, extract_speaker_blocks returns exactly two turns, of roles user and
\* assistant, whatever the spans hold.
C4_TwoTurns ==
    pc = "blocks" /\ OneUserThenAssistant(raw) =>
        Len(blocks) = 2 /\ blocks[1][1] = S_user /\ blocks[2][1] = S_assistant

\* C4, amended: for such a document extract_speaker_blocks sanitizes two
\* spans, the user's and then the assistant's, and returns a turn for each
\* span whose sanitized text is not blank, in that order and with that role;
\* a span whose sanitized text is blank gives no turn.
C4_NonBlankTurns ==
    pc = "blocks" /\ OneUserThenAssistant(raw) =>
        /\ Len(spans) = 2 /\ spans[1][1] = S_user /\ spans[2][1] = S_assistant
        /\ blocks = SelectSeq([k \in 1..2 |-> <<spans[k][1], strip(spans[k][2])>>],
                              LAMBDA b : b[2] # <<>>)

\* The case of C4: both spans have text, and two turns are returned.
C4_BothTurns ==
    /\ pc = "blocks" /\ OneUserThenAssistant(raw)
    /\ Len(blocks) = 2 /\ blocks[1][2] # <<>> /\ blocks[2][2] # <<>>

\* ---------------------------------------------------------------- C5 ----
\* The payload lines of the texts of InitCollapse are their lines "x".
PayloadLineCount(s) == Cardinality({k \in 1..Len(s) : s[k] = "x"})

\* s holds a disclosure widget.
Collapsed(s) == Contains(s, S_details_open)

\* C5: with threshold 14, a fenced block of 14 payload lines is left as it is
\* and one of 15 payload lines is wrapped in <details>.
C5_Threshold ==
    pc = "done" =>
        /\ PayloadLineCount(raw) = 14 => ~Collapsed(doc)
        /\ PayloadLineCount(raw) = 15 => Collapsed(doc)

\* The case of C5: a block of 14 payload lines has been processed.
C5_Fourteen == pc = "done" /\ PayloadLineCount(raw) = 14

\* ---------------------------------------------------------------- C6 ----
\* l starts with pre.
StartsWith(l, pre) == Len(l) >= Len(pre) /\ SubSeq(l, 1, Len(pre)) = pre

\* Lines a..b of ls are a fenced block: a fence line that opens (an even number
\* of fence lines come before it) and the next fence line, which closes it.
IsFencedBlock(ls, a, b) ==
    /\ a < b /\ StartsWith(ls[a], S_fence) /\ StartsWith(ls[b], S_fence)
    /\ \A k \in (a + 1)..(b - 1) : ~StartsWith(ls[k], S_fence)
    /\ Cardinality({k \in 1..(a - 1) : StartsWith(ls[k], S_fence)}) % 2 = 0

\* C6: whatever the width, every fenced block of the text stands in what
\* _wrap_non_code returns, its lines as they were.
C6_FenceKept ==
    pc = "done" =>
        \A a, b \in 1..Len(split(text, <<"\n">>)) :
            IsFencedBlock(split(text, <<"\n">>), a, b) =>
                Contains(doc, Join(SubSeq(split(text, <<"\n">>), a, b), <<"\n">>))

\* The case of C6: a text with a fenced block has been wrapped to a width.
C6_Wrapped ==
    /\ pc = "done" /\ cfg.max_width > 0
    /\ \E a, b \in 1..Len(split(text, <<"\n">>)) : IsFencedBlock(split(text, <<"\n">>), a, b)

\* ---------------------------------------------------------------- C7 ----
\* C7: clean_plain_text applied to its own output changes nothing but
\* whitespace.
C7_Idempotent == pc = "cleaned" /\ pass = 2 => NoWs(text) = NoWs(prev)

\* The case of C7: the sanitizer has run twice.
C7_Twice == pc = "cleaned" /\ pass = 2 /\ prev # <<>>

\* ---------------------------------------------------------------- C8 ----
\* The boundary lines as the claim lists them: a language name (in any case),
\* a turn marker "--- NNN [", a speaker label, <details> or </details>, a
\* Markdown heading, a list item, "Quick extra(s):", the start of a fence.
IsBoundaryLine(l) ==
    \/ LowerStr(l) \in Range(_LANGS)
    \/ M(<<Lit(<<"-", "-", "-">>), Star(Space), Plus(Digit), Star(Space), Lit(<<"[">>)>>, l, 1)
           # <<>>
    \/ l \in {S_you_said, S_chatgpt_said}
    \/ StartsWith(l, <<"<">> \o S_details) \/ StartsWith(l, <<"<", "/">> \o S_details)
    \/ M(<<Rep(Cls({"#"}), 1, 6), One(Space)>>, l, 1) # <<>>
    \/ M(LIST_PREFIX_RE, l, 1) # <<>>
    \/ M(<<Lit(<<"Q","u","i","c","k"," ","e","x","t","r","a">>), Opt(<<Lit(<<"s">>)>>),
           Lit(<<":">>)>>, l, 1) # <<>>
    \/ StartsWith(l, S_fence)

\* The first line of s
FirstLine(s) == split(s, <<"\n">>)[1]

\* C8: the payload of a block that apply_code_markdown builds holds no
\* boundary line, and the payload of the block at the first marker is empty
\* when a boundary line comes right after that marker.
C8_PayloadStops ==
    /\ \A l \in Range(split(code_payload, <<"\n">>)) : ~IsBoundaryLine(l)
    /\ Len(out) = 2 /\ IsBoundaryLine(FirstLine(Sub(text, Len(P_marker) + 1, Len(text))))
           => code_payload = <<>>

\* The case of C8: a block has been built whose payload the boundary ended
\* before the end of the text.
C8_Stopped == pc = "acm" /\ Len(out) = 2 /\ code_payload # <<>> /\ i < Len(text)

\* ---------------------------------------------------------------- C9 ----
\* The label of a TOC line: [[#label|label]] or [label](#anchor)
LinkLabel(l) ==
    IF Contains(l, <<"[", "[", "#">>)
    THEN Sub(l, Find(l, <<"|">>, 1) + 1, Len(l) - 2)
    ELSE Sub(l, Find(l, <<"[">>, 1) + 1, Find(l, <<"]", "(">>, 1) - 1)

\* The lines of ls that start with pre
LinesWith(ls, pre) == SelectSeq(ls, LAMBDA l : StartsWith(l, pre))

\* The labels of the TOC lines ls
TocLabels(ls) == [k \in 1..Len(ls) |-> LinkLabel(ls[k])]

\* The texts of the headings hs of level 3
HeadingTexts(hs) == [k \in 1..Len(hs) |-> Sub(hs[k], 5, Len(hs[k]))]

\* The top-level TOC lines, the TOC lines of the turns, the turn headings
TopLinks(ls) == TocLabels(LinesWith(ls, <<"-", " ", "[">>))
TurnLinks(ls) == TocLabels(LinesWith(ls, <<" ", " ", "-", " ", "[">>))
TurnHeadings(ls) == HeadingTexts(LinesWith(ls, <<"#", "#", "#", " ">> \o S_turn))

\* The turn headings hs are n headings "Turn NNN -- <label>", numbered from 001.
NumberedFromOne(hs, n) ==
    /\ Len(hs) = n
    /\ \A k \in 1..n : StartsWith(hs[k], S_turn \o Pad3(k) \o <<" ", EM_DASH, " ">>)

\* The TOC of the lines ls is the TOC of depth d for n turns and this title.
TocLevels(ls, d, n, title) ==
    /\ (LinesWith(ls, <<"#", "#", " ", "T", "a", "b", "l", "e", " ">>) # <<>>) <=> d >= 1
    /\ TopLinks(ls) = IF d <= 0 THEN <<>> ELSE IF d = 1 THEN <<title>> ELSE <<title, S_turns>>
    /\ TurnLinks(ls) = IF d >= 3 THEN TurnHeadings(ls) ELSE <<>>
    /\ NumberedFromOne(TurnHeadings(ls), n)
    /\ (S_turns_head \in Range(ls)) <=> d >= 2

\* C9: in what render_pretty_md returns, the TOC heading is there from depth 1
\* on; the top-level TOC links are none (depth 0), the title (1), the title
\* and "Turns" (2 and more); from depth 3 on the turn links are one per turn,
\* in turn order, their labels the texts "Turn NNN -- <label>" of the turn
\* headings of the body, and below depth 3 there is none; every turn has its
\* heading, numbered from 001; the "## Turns" heading is there exactly from
\* depth 2 on.
C9_TocLevels ==
    pc = "done" => TocLevels(split(doc, <<"\n">>), cfg.toc_depth, Len(blocks), cfg.title)

\* The case of C9: several turns rendered at depth 3, each with its link.
C9_TurnLinks ==
    /\ pc = "done" /\ cfg.toc_depth = 3 /\ Len(blocks) >= 2
    /\ Len(TurnLinks(split(doc, <<"\n">>))) = Len(blocks)

\* --------------------------------------------------------------- C10 ----
\* The list prefix of a line, <<>> if it has none
ItemPrefix(l) ==
    IF M(LIST_PREFIX_RE, l, 1) = <<>> THEN <<>> ELSE Sub(l, 1, MEnd(M(LIST_PREFIX_RE, l, 1)) - 1)

\* The list prefixes of the list-item lines of s, in order
ItemPrefixes(s) ==
    SelectSeq([k \in 1..Len(split(s, <<"\n">>)) |-> ItemPrefix(split(s, <<"\n">>)[k])],
              LAMBDA x : x # <<>>)

\* s has no fence, and every line of s that is not blank is a list item.
OnlyItems(s) ==
    /\ ~Contains(s, S_fence)
    /\ \A l \in Range(split(s, <<"\n">>)) : strip(l) # <<>> => ItemPrefix(l) # <<>>

\* Line j of ls, which is no list item, is indented by the width of the prefix
\* of the list item before it.
HangsUnder(ls, j) ==
    /\ \E q \in 1..(j - 1) : ItemPrefix(ls[q]) # <<>>
    /\ StartsWith(ls[j],
                  [k \in 1..Len(ItemPrefix(ls[Max({q \in 1..(j - 1) : ItemPrefix(ls[q]) # <<>>})]))
                      |-> " "])

\* C10: wrapping a text of list items to a width > 0 keeps every item: the
\* list-item lines of the output are the items of the input, in order and
\* with their prefixes, and every other line of the output is a continuation
\* line indented by the prefix width of its item.
C10_ItemsKept ==
    pc = "done" /\ cfg.max_width > 0 /\ OnlyItems(text) =>
        /\ ItemPrefixes(doc) = ItemPrefixes(text)
        /\ \A j \in 1..Len(split(doc, <<"\n">>)) :
               strip(split(doc, <<"\n">>)[j]) # <<>> /\ ItemPrefix(split(doc, <<"\n">>)[j]) = <<>>
                   => HangsUnder(split(doc, <<"\n">>), j)

\* The case of C10: a text of two list items has been wrapped to a width.
C10_TwoItems ==
    pc = "done" /\ cfg.max_width > 0 /\ OnlyItems(text) /\ Len(ItemPrefixes(text)) = 2

\* --------------------------------------------------------------- C11 ----
\* One iteration of the scan loop at position a (i before) that ends at b (i
\* after), m being what the search for a marker gave.  With a marker: it starts
\* at or after a, it is not empty, the block ends at or after its end, so a < b
\* and the block lies after the one before it; the loop goes on.  Without: the
\* loop is left, and the text is returned as it was if this was the first
\* iteration.
ScanStep(m, a, b) ==
    IF m # <<>>
    THEN /\ a <= MStart(m) - 1 /\ MStart(m) < MEnd(m) /\ MEnd(m) - 1 <= b /\ a < b
         /\ b <= Len(text) /\ pc' = "acm" /\ Len(out') = Len(out) + 2
    ELSE pc' = ret /\ (a = 0 => text' = text)

ScanAdvances == [][pc = "acm" => ScanStep(AcmOpen(text, i), i, i')]_vars

\* C11: apply_code_markdown terminates: every iteration that finds a marker
\* moves i strictly forward, past the marker, the blocks follow one another,
\* the first iteration that finds no marker leaves the loop, a text without
\* a marker is returned unchanged, and the function returns in the end.
C11_ScanTerminates == ScanAdvances /\ <>(pc = "done")

\* The case of C11: the loop has built two blocks and returned.
C11_TwoBlocks == pc = "done" /\ Len(out) >= 5

\* --------------------------------------------------------------- C12 ----
\* Every fence of the lines ls is a line of its own, and the fence lines pair
\* up into fenced blocks: each opening fence starts a line and each closing
\* fence ends one.
OwnLineFences(ls) ==
    /\ \A l \in Range(ls) : Contains(l, S_fence) => l = S_fence
    /\ Cardinality({k \in 1..Len(ls) : ls[k] = S_fence}) % 2 = 0

\* fs being the fences of s from left to right, the odd ones opening and the
\* even ones closing: every opening fence starts a line of s, and every
\* closing fence is followed by a line break or by the end of s.
DelimitersOnOwnLine(s, fs) ==
    \A k \in 1..Len(fs) :
        IF k % 2 = 1
        THEN MStart(fs[k]) = 1 \/ s[MStart(fs[k]) - 1] = "\n"
        ELSE MEnd(fs[k]) > Len(s) \/ s[MEnd(fs[k])] = "\n"

\* C12: _wrap_non_code with a width > 0 keeps the fence delimiters on lines
\* of their own: when every opening fence of the text starts a line and every
\* closing fence ends one, the same holds of what it returns, whether a blank
\* line or a single newline separates the fence from the prose beside it.
C12_FencesOnOwnLines ==
    pc = "done" /\ cfg.max_width > 0 /\ OwnLineFences(split(text, <<"\n">>)) =>
        DelimitersOnOwnLine(doc, FindAll(<<Lit(S_fence)>>, doc, 1))

\* The case of C12: a text whose first line is prose and whose second line
\* opens a fenced block, a single newline between them, has been wrapped.
C12_ProseThenFence ==
    /\ pc = "done" /\ cfg.max_width > 0 /\ OwnLineFences(split(text, <<"\n">>))
    /\ StartsWith(text, W_plain \o <<"\n">> \o S_fence)
====
